---- MODULE Spec2Model ----
(***************************************************************************)
(* Model of the Nakamoto block signing coordinator                         *)
(* (testnet/stacks-node/src/nakamoto_node/sign_coordinator.rs).            *)
(*                                                                         *)
(* One SignCoordinator runs one signing round (run_sign_v0, or the         *)
(* testing-only begin_sign_v1).  The environment delivers StackerDB events *)
(* on the coordinator's channel, answers the queries for the stored block  *)
(* and advances the clock.                                                 *)
(***************************************************************************)
EXTENDS Integers, Sequences, FiniteSets, TLC

\* ------------------------------------------------------------------ bounds

\* Most chunks (modified slots, messages) of one event.
MaxChunks == 2
\* Coordinators created over the life of the channel registry.
MaxCoordinators == 3
\* Longest byte sequence given to c32_encode.
MaxBytes == 3
\* Longest string given to the decoders as it is.
MaxStr == 2
\* Highest writer id a slot is computed for.
MaxWriterId == 2
\* send_message calls made by all clients together.
MaxCalls == 2
\* Highest chunk version a client submits.
MaxVersion == 3
\* config.miner.wait_on_signers, in units of the receiver poll interval.
SigningRoundTimeout == 1
\* The most calls of request_fn one retry_http_request makes: the backoff timer
\* has given up by then.
MaxRequests == 3
\* Highest version of a chunk the miner writes.
MaxMinerVersion == 2

\* ------------------------------------------------------- program constants

U16Max == 65535
\* The length of the payload of an address (a Hash160).
PayloadLen == 20
\* The number of slots of a StackerDB writer.
SLOTS_PER_USER == 10
\* EVENT_RECEIVER_POLL, the unit of the model's clock.
EVENT_RECEIVER_POLL == 1

\* ------------------------------------------------------------ value spaces

\* The slot ids events carry: those of a committee of three, and one more
\* that has no signer entry.
SlotIds == 0..3

\* block.header.signer_signature_hash() of the block being signed, and the
\* hash of some other block.
BlockHash == "this_block"
OtherHash == "other_block"
Hashes == {BlockHash, OtherHash}

\* A u32 is kept as two 16-bit halves, so that every u32 value has its own
\* representation and the arithmetic below has the width of the code's.
U32(n) == [hi |-> n \div (U16Max + 1), lo |-> n % (U16Max + 1)]
U32Max == [hi |-> U16Max, lo |-> U16Max]
\* Option<u32>::None
NoneU32 == [hi |-> -1, lo |-> -1]
\* Two weights near the top of the u32 range: 2^31 and 2^31 - 1.
TwoTo31 == [hi |-> 32768, lo |-> 0]
TwoTo31Less1 == [hi |-> 32767, lo |-> U16Max]

\* A reward-set entry: its weight and whether its 33 signing-key bytes parse
\* as a public key.  The key of the entry at slot i is identified with i.
Entry(w, ok) == [weight |-> w, key_ok |-> ok]

\* The reward sets a coordinator is constructed from: total weight 4 (T = 3),
\* once with a signing key that does not parse, and two signers of total
\* weight u32::MAX.
Committees ==
    { << Entry(U32(2), TRUE), Entry(U32(1), TRUE), Entry(U32(1), TRUE) >>,
      << Entry(U32(2), TRUE), Entry(U32(1), TRUE), Entry(U32(1), FALSE) >>,
      << Entry(TwoTo31, TRUE), Entry(TwoTo31Less1, TRUE) >> }

\* A MessageSignature: a recoverable ECDSA signature made by the key `by`
\* over the hash `over` (`n` tells two signatures of one signer apart), or
\* 65 bytes that are no signature at all.
Sig(by, over, n) == [kind |-> "ecdsa", by |-> by, over |-> over, n |-> n]
MalformedSig == [kind |-> "malformed", by |-> 0, over |-> OtherHash, n |-> 0]
NoSig == [kind |-> "none", by |-> 0, over |-> OtherHash, n |-> 0]

GoodSigs ==
    { Sig(0, BlockHash, 1), Sig(0, BlockHash, 2), Sig(1, BlockHash, 1),
      Sig(2, BlockHash, 1) }
Sigs == GoodSigs \cup { Sig(0, OtherHash, 1), MalformedSig }

\* SignerMessageV0
Accepted(h, s) == [type |-> "Accepted", hash |-> h, sig |-> s]
Rejected(h) == [type |-> "Rejected", hash |-> h, sig |-> NoSig]
Other(t) == [type |-> t, hash |-> OtherHash, sig |-> NoSig]

IgnoredTypes ==
    {"BlockProposal", "BlockPushed", "MockSignature", "MockProposal", "MockBlock"}

Messages ==
    { Accepted(BlockHash, s) : s \in Sigs }
      \cup { Accepted(OtherHash, Sig(0, OtherHash, 1)) }
      \cup { Rejected(h) : h \in Hashes }
      \cup { Other(t) : t \in IgnoredTypes }

\* How a call ends.
OkGathered == "Ok(gathered_signatures)"
OkStored == "Ok(stored_block.header.signer_signature)"
OkTestSigning == "Ok(test signatures)"
OkV1Signature == "Ok(ThresholdSignature)"
SignersRejected == "SignersRejected"
TimedOut == "SignerSignatureError(Timed out waiting for group signature)"
SignerEntryNotFound == "SignerSignatureError(Signer entry not found)"
BadSignerKey == "SignerSignatureError(Failed to parse signer public key)"
V1BadSignature == "SignerSignatureError(Signature failed to validate over the expected block)"
V1SignError == "SignerSignatureError(Signing failed)"
PublishFailed == "SigningCoordinatorFailure(send_miners_message)"
ReceiverDisconnected == "SigningCoordinatorFailure(StackerDB event receiver disconnected)"
Panic == "panic"

\* The record of `last`.
Last(slot, msg, had) == [slot |-> slot, msg |-> msg, had |-> had]

\* A StackerDBChunksEvent as the coordinator sees it: whether its contract is
\* a boot contract whose name starts with SIGNERS_NAME, how many modified
\* slots it has, what SignerEvent::try_from makes of it, and (for
\* SignerMessages) the signer set and the number of messages.  The chunks
\* themselves (slot id, message) are drawn when the code reads them.
Event(is_signer, nslots, parsed, set, nmsgs) ==
    [ is_signer_event |-> is_signer, nslots |-> nslots, parsed |-> parsed,
      signer_set |-> set, nmsgs |-> nmsgs ]

Events ==
    { Event(FALSE, n, "ParseError", 0, 0) : n \in 0..MaxChunks }
      \cup { Event(TRUE, n, p, 0, 0) :
                n \in 0..MaxChunks, p \in {"ParseError", "OtherVariant"} }
      \cup { Event(TRUE, n, "SignerMessages", set, m) :
                n \in 0..MaxChunks, set \in 0..1, m \in 0..MaxChunks }

\* The slot ids of the modified slots of an event.
ModifiedSlots(ev) == [1..ev.nslots -> SlotIds]

\* The signer_signature vectors a relayed, stored block can carry.
StoredVectors ==
    { << Sig(0, BlockHash, 2), Sig(1, BlockHash, 1) >>,
      << Sig(0, BlockHash, 2), Sig(1, BlockHash, 1), Sig(2, BlockHash, 1) >> }

\* What TestSigningChannel::get_signature() hands back in test builds.
TestSignatures == << Sig(0, BlockHash, 0) >>

RewardCycles == {5}

Min(a, b) == IF a < b THEN a ELSE b

\* ---------------------------------------------------------------- state

VARIABLES
    signer_entries,       \* self.signer_entries: slot id -> entry
    total_weight,         \* self.total_weight
    weight_threshold,     \* self.weight_threshold
    next_signer_bitvec,   \* self.next_signer_bitvec
    ignore_signers,       \* TEST_IGNORE_SIGNERS == Some(true)
    test_signing,         \* TEST_SIGNING channel holds a signature
    proto,                \* which round is run: "v0" or "v1"
    pc,                   \* position of the coordinator thread
    reward_cycle,         \* reward_cycle_id of the round
    elapsed,              \* start_ts.elapsed(), in poll intervals
    pending,              \* an event is waiting in the channel
    total_weight_signed,  \* local of run_sign_v0
    total_reject_weight,  \* local of run_sign_v0
    gathered_signatures,  \* local of run_sign_v0: BTreeMap slot id -> signature
    todo,                 \* number of (message, slot_id) pairs not yet iterated
    outcome,              \* "none" while running, else how the call ended
    returned,             \* the Vec<MessageSignature> of an Ok return
    last,                 \* history: since the last wakeup, the message handled
                          \* last (its slot id; whether that slot had a gathered
                          \* signature) or the filter that dropped the event
    rejected_by,          \* history: slots whose Rejected for this block was tallied
    naka_proposed_blocks, \* counters.naka_proposed_blocks
    sender_info,          \* STACKER_DB_CHANNEL: the registry's sender and receiver
    holders,              \* every SignCoordinator: its life and its self.receiver
    round_exit,           \* history: who ran the last round, how it ended
    clients,              \* every StacksClient: its slot_versions, its call in progress
    stackerdb,            \* the StackerDB replica: slot -> stored chunk
    client_hist,          \* history: per client, the chunks it submitted
    calls,                \* number of send_message calls made so far
    c32,                  \* the codec: the function applied last, its input and result
    http,                 \* retry_http_request: the call in progress, its requests
    miners                \* send_miners_message: the call made last, the node's replica

\* The state of one signing round.
round_vars ==
    << signer_entries, total_weight, weight_threshold, next_signer_bitvec,
       ignore_signers, test_signing, proto, pc, reward_cycle, elapsed, pending,
       total_weight_signed, total_reject_weight,
       gathered_signatures, todo, outcome, returned, last, rejected_by,
       naka_proposed_blocks >>
\* The channel registry and the coordinators that use it.
registry_vars == << sender_info, holders, round_exit >>

\* The signer-side clients and the store they write to.
client_vars == << clients, stackerdb, client_hist, calls >>
\* The address codec.
codec_vars == << c32 >>
\* The node requests of the signer-side client.
http_vars == << http >>
\* The miner's writes to the .miners StackerDB.
miners_vars == << miners >>

vars == << round_vars, registry_vars, client_vars, codec_vars, http_vars, miners_vars >>
\* What a signing round leaves alone.
outside_round == << registry_vars, client_vars, codec_vars, http_vars, miners_vars >>
\* What the registry's operations leave alone.
outside_registry == << round_vars, client_vars, codec_vars, http_vars, miners_vars >>
\* What the clients' operations leave alone.
outside_client == << round_vars, registry_vars, codec_vars, http_vars, miners_vars >>
\* What the codec's functions leave alone.
outside_codec == << round_vars, registry_vars, client_vars, http_vars, miners_vars >>
\* What a node request leaves alone.
outside_http == << round_vars, registry_vars, client_vars, codec_vars, miners_vars >>
\* What a write to the .miners StackerDB leaves alone.
outside_miners == << round_vars, registry_vars, client_vars, codec_vars, http_vars >>

\* The fields SignCoordinator::new sets and a round only reads.
config_vars == << signer_entries, total_weight, weight_threshold,
                  ignore_signers, test_signing >>
\* The locals of the collection loop.
tally_vars == << total_weight_signed, total_reject_weight, gathered_signatures >>
hist_vars == << last, rejected_by >>
env_vars == << pending >>
\* The node's counters a round bumps.
counter_vars == << naka_proposed_blocks >>

\* -------------------------------------------------------- pure operators

\* a + b over the integers: the sum's low half and everything above it (a
\* sum that does not fit a u32 has hi > U16Max).
Plus(a, b) ==
    LET lo == a.lo + b.lo
    IN [hi |-> a.hi + b.hi + (lo \div (U16Max + 1)), lo |-> lo % (U16Max + 1)]

\* The number fits a u32.
FitsU32(a) == a.hi <= U16Max

\* u32::checked_add
CheckedAdd(a, b) == IF FitsU32(Plus(a, b)) THEN Plus(a, b) ELSE NoneU32

\* u32::saturating_add
SaturatingAdd(a, b) == IF FitsU32(Plus(a, b)) THEN Plus(a, b) ELSE U32Max

\* a > b and a >= b, on u32 and on the sums of Plus
Gt(a, b) == a.hi > b.hi \/ (a.hi = b.hi /\ a.lo > b.lo)
Geq(a, b) == a = b \/ Gt(a, b)

RECURSIVE SumWeights(_, _)
\* Sum of entry.weight over the slots in S, over the integers.
SumWeights(entries, S) ==
    IF S = {} THEN U32(0)
    ELSE LET s == CHOOSE x \in S : TRUE
         IN Plus(entries[s].weight, SumWeights(entries, S \ {s}))

RECURSIVE TotalSigningWeightFrom(_, _)
TotalSigningWeightFrom(committee, acc) ==
    IF committee = << >> \/ acc = NoneU32 THEN acc
    ELSE TotalSigningWeightFrom(Tail(committee), CheckedAdd(acc, Head(committee).weight))

\* RewardSet::total_signing_weight: the checked sum of the weights.
TotalSigningWeight(committee) == TotalSigningWeightFrom(committee, U32(0))

\* NakamotoBlockHeader::compute_voting_weight_threshold: 70% of the total,
\* rounded up, computed in u64.
ComputeVotingWeightThreshold(total) ==
    LET x == total.hi * 7
        rest == (x % 10) * (U16Max + 1) + total.lo * 7
        ceil == IF rest % 10 = 0 THEN 0 ELSE 1
        low == (rest \div 10) + ceil
    IN [hi |-> (x \div 10) + (low \div (U16Max + 1)), lo |-> low % (U16Max + 1)]

\* BitVec::zeros(len)
BitVecZeros(len) == [i \in 0..(len - 1) |-> FALSE]

\* BitVec::set(i, true): Err when i is not below the length.
BitVecSetOk(bv, i) == i \in DOMAIN bv
BitVecSet(bv, i) == IF BitVecSetOk(bv, i) THEN [bv EXCEPT ![i] = TRUE] ELSE bv

RECURSIVE ValuesFrom(_, _)
ValuesFrom(m, ks) ==
    IF ks = {} THEN << >>
    ELSE LET k == CHOOSE x \in ks : \A y \in ks : x <= y
         IN << m[k] >> \o ValuesFrom(m, ks \ {k})

RECURSIVE ValuesDownFrom(_, _)
ValuesDownFrom(m, ks) ==
    IF ks = {} THEN << >>
    ELSE LET k == CHOOSE x \in ks : \A y \in ks : x >= y
         IN << m[k] >> \o ValuesDownFrom(m, ks \ {k})

\* Variant: the values from the highest key down.
Values_Descending(m) == ValuesDownFrom(m, DOMAIN m)

\* BTreeMap::values().cloned().collect(): the values in key order.
Values(m) == ValuesFrom(m, DOMAIN m)

\* BTreeMap::insert
Insert(m, k, v) == [x \in (DOMAIN m) \cup {k} |-> IF x = k THEN v ELSE m[x]]

EmptyMap == [x \in {} |-> NoSig]

\* Variant: every well-formed signature verifies, whoever made it.
Verify_Lenient(slot, hash, sig) == IF sig.kind # "ecdsa" THEN "err" ELSE "true"

\* StacksPublicKey::verify(block_sighash.bits(), &signature) with the key of
\* the entry at `slot`: "err", "false" or "true".
Verify(slot, hash, sig) ==
    IF sig.kind # "ecdsa" THEN "err"
    ELSE IF sig.by = slot /\ sig.over = hash THEN "true"
    ELSE "false"

\* ------------------------------------------------- conditions of the code

\* event.contract_id.name.starts_with(SIGNERS_NAME) && event.contract_id.is_boot()
IsSignerEvent(ev) == ev.is_signer_event

\* Variant: every signer set is taken for this one.
ForThisSignerSet_Any(signer_set, rc) == TRUE

\* signer_set == u32::try_from(reward_cycle_id % 2).unwrap()
ForThisSignerSet(signer_set, rc) == signer_set = rc % 2

\* Variant: the loop runs one time unit past the deadline.
WithinDeadline_Late(e, timeout) == e <= timeout + 1

\* start_ts.elapsed() <= self.signing_round_timeout
WithinDeadline(e, timeout) == e <= timeout

\* Variant: no Accepted response is taken to be for another block.
AcceptedForOtherBlock_Never(response_hash) == FALSE

\* block_sighash != response_hash
AcceptedForOtherBlock(response_hash) == BlockHash # response_hash

\* rejected_data.signer_signature_hash != block.header.signer_signature_hash()
RejectedForOtherBlock(hash) == hash # BlockHash

\* Variant: no slot is taken to be counted already.
AlreadyGathered_Never(gs, slot) == FALSE

\* gathered_signatures.contains_key(&slot_id)
AlreadyGathered(gs, slot) == slot \in DOMAIN gs

\* total_reject_weight.saturating_add(self.weight_threshold) > self.total_weight
RejectThresholdReached(reject, threshold, total) ==
    Gt(SaturatingAdd(reject, threshold), total)

\* Variant: the threshold must be exceeded.
ThresholdReached_Strict(signed, threshold) == Gt(signed, threshold)

\* total_weight_signed >= self.weight_threshold
ThresholdReached(signed, threshold) == Geq(signed, threshold)

\* The filter of the loop body that drops the event, or "none".
EventFilter(ev, rc) ==
    IF ~IsSignerEvent(ev) THEN "not_signer_event"
    ELSE IF ev.parsed = "ParseError" THEN "parse_error"
    ELSE IF ev.parsed # "SignerMessages" THEN "other_variant"
    ELSE IF ~ForThisSignerSet(ev.signer_set, rc) THEN "other_signer_set"
    ELSE "none"

\* messages.into_iter().zip(slot_ids): the number of pairs iterated.
ZipLen(ev) == Min(ev.nmsgs, ev.nslots)

\* Variant: the locally gathered signatures are returned for a stored block.
StoredSignatures_Gathered(stored_block) == Values(gathered_signatures)

\* The vector returned for a block found in the staging db.
StoredSignatures(stored_block) == stored_block

\* What nakamoto_blocks_db().get_nakamoto_block(&block.block_id()) can answer:
\* Err(_), Ok(None), or Ok(Some(block)) once the relayed block is stored.
QueryResults ==
    { [ok |-> FALSE, found |-> FALSE, block |-> << >>],
      [ok |-> TRUE, found |-> FALSE, block |-> << >>] }
      \cup { [ok |-> TRUE, found |-> TRUE, block |-> v] : v \in StoredVectors }

\* ------------------------------------------------------------- initially

\* The state SignCoordinator::new leaves for a reward set of `committees`,
\* with the test switches drawn from `switches`.
RoundStart(committees, switches) ==
    /\ \E committee \in committees :
         /\ signer_entries = [i \in 0..(Len(committee) - 1) |-> committee[i + 1]]
         /\ total_weight = TotalSigningWeight(committee)
         /\ weight_threshold = ComputeVotingWeightThreshold(TotalSigningWeight(committee))
         /\ next_signer_bitvec = BitVecZeros(Len(committee))
    /\ ignore_signers \in switches
    /\ test_signing \in switches
    /\ proto = "v0"
    /\ pc = "idle"
    /\ reward_cycle = 0
    /\ elapsed = 0
    /\ pending = FALSE
    /\ total_weight_signed = U32(0)
    /\ total_reject_weight = U32(0)
    /\ gathered_signatures = EmptyMap
    /\ todo = 0
    /\ outcome = "none"
    /\ returned = << >>
    /\ last = Last(0, Other("none"), FALSE)
    /\ rejected_by = {}
    /\ naka_proposed_blocks = 0

\* No channel: the None of an Option<Receiver> or Option<Sender>.
NoChannel == 0

\* The coordinators of the registry's model.
Coordinators == 1..MaxCoordinators

\* A SignCoordinator: "unborn", "failed" (new returned Err), "alive",
\* "crashed" (its thread is gone and Drop never ran), "dropped" or "panicked";
\* its self.receiver; what register_miner_coordinator told it.
Holder(status, receiver, replaced_other) ==
    [status |-> status, receiver |-> receiver, replaced_other |-> replaced_other]

\* The registry before any coordinator exists, and no coordinator yet.
RegistryStart ==
    /\ sender_info = [sender |-> NoChannel, receiver |-> NoChannel, created |-> 0]
    /\ holders = [c \in Coordinators |-> Holder("unborn", NoChannel, FALSE)]
    /\ round_exit = [who |-> 0, how |-> "none"]

\* One signing round on its own: a committee of total weight 4, no test switch.
RoundIdle ==
    RoundStart({ << Entry(U32(2), TRUE), Entry(U32(1), TRUE), Entry(U32(1), TRUE) >> },
               {FALSE})

\* The StacksClient instances, the writer ids they are called with and the
\* wsts messages they send.
Clients == 1..2
WriterIds == {1}
MessageTypes == {"NonceRequest"}

\* Every writer id and every variant of wsts' Message, for slot_id.
AllWriterIds == 0..MaxWriterId
AllMessageTypes ==
    {"DkgBegin", "DkgPrivateBegin", "DkgEnd", "DkgPublicShares", "DkgPrivateShares",
     "NonceRequest", "NonceResponse", "SignatureShareRequest", "SignatureShareResponse"}

\* The arm of slot_id's match for a message.
MessageTypeIndex(message) ==
    CASE message = "DkgBegin" -> 0
      [] message = "DkgPrivateBegin" -> 1
      [] message = "DkgEnd" -> 2
      [] message = "DkgPublicShares" -> 4
      [] message = "DkgPrivateShares" -> 5
      [] message = "NonceRequest" -> 6
      [] message = "NonceResponse" -> 7
      [] message = "SignatureShareRequest" -> 8
      [] message = "SignatureShareResponse" -> 9

\* Variant: the writer id is not multiplied.
slot_id_Added(id, message) == id + MessageTypeIndex(message)

\* fn slot_id(id, message)
slot_id(id, message) == SLOTS_PER_USER * id + MessageTypeIndex(message)

\* HashMap::new()
NoVersions == [x \in {} |-> 0]

\* No call in progress.
NoCall == [pc |-> "idle", id |-> 0, message |-> "none", slot_id |-> 0,
           message_bytes |-> 0, first |-> FALSE, last |-> "none"]

\* The clients before their first call, and an empty StackerDB.  client_hist
\* records the last chunk put (by whom, where, at which version, with which
\* payload, whether it was the first of its call, the answer to the chunk
\* before it in the call, and the versions last accepted from and last put
\* by this client for the slot before it), the last return of
\* send_message, and per client and slot the version of the last ack if it
\* accepted (0 if it did not) and the version of the last chunk put, with
\* whether the store answered it.
ClientStart ==
    /\ clients = [w \in Clients |-> [slot_versions |-> NoVersions, call |-> NoCall]]
    /\ stackerdb = [x \in {} |-> [version |-> 0, data |-> 0, writer |-> 0]]
    /\ client_hist = [chunk |-> [client |-> 0, slot_id |-> 0, slot_version |-> 0,
                                 data |-> 0, first |-> FALSE, retry_of |-> "none",
                                 after |-> 0, before |-> 0],
                      returned |-> [client |-> 0, kind |-> "none", reason |-> "none",
                                    slot_version |-> 0],
                      acked |-> [w \in Clients |-> NoVersions],
                      put |-> [w \in Clients |->
                                 [x \in {} |-> [slot_version |-> 0, answered |-> FALSE]]]]
    /\ calls = 0

\* No codec function applied yet.
CodecStart == c32 = [hash |-> "zeros", given |-> "none", version |-> 0, bytes |-> << >>,
                     str |-> << >>, edit |-> "none", at |-> 0, op |-> "none",
                     result |-> [kind |-> "none", version |-> 0, bytes |-> << >>,
                                 str |-> << >>, computed |-> [hi |-> 0, lo |-> 0],
                                 expected |-> [hi |-> 0, lo |-> 0]]]

\* No node request made yet.
NoResponse == [kind |-> "none", status |-> 0]
HttpStart == http = [pc |-> "idle", caller |-> "none", sent |-> << >>,
                     result |-> NoResponse]

\* No miner message sent yet; the node's replica of the .miners StackerDB holds
\* no chunk (version 0 stands for a slot without a chunk).
\* The None of Option<u32> (a slot without a version in the local db).
NoVersion == 0 - 1
NoSlotRange == [start |-> 0, end |-> 0]
MinersStart == miners = [pc |-> "idle", slot_range |-> NoSlotRange, miner_slot_id |-> 0,
                         last_version |-> NoVersion, chunks |-> << >>,
                         result |-> "none", node |-> [x \in {} |-> 0]]

Init ==
    RoundStart(Committees, BOOLEAN) /\ RegistryStart /\ ClientStart /\ CodecStart
    /\ HttpStart /\ MinersStart

\* ------------------------------------------------------ the coordinator

\* The call returns: Ok(sigs) or an Err named by `how`.
Return(how, sigs) ==
    /\ pc' = "done"
    /\ outcome' = how
    /\ returned' = sigs

\* counters.bump_naka_proposed_blocks() stands after the `?` that returns the
\* publish error: it runs only when the publish succeeded.
BumpProposed_Before(n, publish_ok) == n + 1
BumpProposed(n, publish_ok) == IF publish_ok THEN n + 1 ELSE n

\* run_sign_v0 / begin_sign_v1 up to the collection loop: publish the
\* proposal, take the test short-circuit, initialise the locals.
BeginSign(p, rc, publish_ok) ==
    /\ pc = "idle"
    /\ proto' = p
    /\ reward_cycle' = rc
    /\ elapsed' = 0
    /\ IF ~publish_ok THEN Return(PublishFailed, << >>)
       ELSE IF test_signing
            THEN Return(OkTestSigning, IF p = "v0" THEN TestSignatures ELSE << >>)
       ELSE /\ pc' = "head"
            /\ UNCHANGED << outcome, returned >>
    /\ total_weight_signed' = U32(0)
    /\ total_reject_weight' = U32(0)
    /\ gathered_signatures' = EmptyMap
    /\ naka_proposed_blocks' = BumpProposed(naka_proposed_blocks, publish_ok)
    /\ UNCHANGED << outside_round, config_vars, next_signer_bitvec, env_vars, todo, hist_vars >>

\* The while condition fails: the deadline has passed.
LoopTimeout ==
    /\ pc = "head"
    /\ ~WithinDeadline(elapsed, SigningRoundTimeout)
    /\ Return(TimedOut, << >>)
    /\ UNCHANGED << outside_round, counter_vars, config_vars, next_signer_bitvec, proto, reward_cycle, elapsed,
                    env_vars, tally_vars, todo, hist_vars >>

\* run_sign_v0, top of the loop body: look for the block in the staging db.
QueryChainstate(q) ==
    /\ pc = "head"
    /\ proto = "v0"
    /\ WithinDeadline(elapsed, SigningRoundTimeout)
    /\ IF q.ok /\ q.found
       THEN Return(OkStored, StoredSignatures(q.block))
       ELSE /\ pc' = "recv"
            /\ UNCHANGED << outcome, returned >>
    /\ last' = Last(0, Other("none"), FALSE)
    /\ UNCHANGED << outside_round, counter_vars, config_vars, next_signer_bitvec, proto, reward_cycle, elapsed,
                    env_vars, tally_vars, todo, rejected_by >>

\* begin_sign_v1, top of the loop body: nothing but the receive.
PollV1 ==
    /\ pc = "head"
    /\ proto = "v1"
    /\ WithinDeadline(elapsed, SigningRoundTimeout)
    /\ pc' = "recv"
    /\ last' = Last(0, Other("none"), FALSE)
    /\ UNCHANGED << outside_round, counter_vars, config_vars, next_signer_bitvec, proto, reward_cycle, elapsed,
                    env_vars, tally_vars, todo, outcome, returned, rejected_by >>

\* recv_timeout(EVENT_RECEIVER_POLL) -> Err(Timeout): continue.
RecvTimeout ==
    /\ pc = "recv"
    /\ ~pending
    /\ elapsed' = Min(elapsed + EVENT_RECEIVER_POLL, SigningRoundTimeout + 1)
    /\ pc' = "head"
    /\ UNCHANGED << outside_round, counter_vars, config_vars, next_signer_bitvec, proto, reward_cycle,
                    env_vars, tally_vars, todo, outcome, returned, hist_vars >>

\* Variant: a disconnected channel ends the round with what was gathered.
OnDisconnected_Gathered(gs) == [how |-> OkGathered, sigs |-> Values(gs)]

\* Err(RecvTimeoutError::Disconnected) => return Err(SigningCoordinatorFailure(..))
OnDisconnected(gs) == [how |-> ReceiverDisconnected, sigs |-> << >>]

\* recv_timeout(EVENT_RECEIVER_POLL) -> Err(Disconnected): the channel is
\* empty and its sender has been dropped.
RecvDisconnected ==
    /\ pc = "recv"
    /\ ~pending
    /\ Return(OnDisconnected(gathered_signatures).how, OnDisconnected(gathered_signatures).sigs)
    /\ UNCHANGED << outside_round, counter_vars, config_vars, next_signer_bitvec, proto, reward_cycle, elapsed,
                    env_vars, tally_vars, todo, hist_vars >>

\* Variant: a dropped event is followed by the next receive.
ContinueLoop_Receive == "recv"

\* `continue` in the body of the while loop: the loop condition is evaluated
\* next.
ContinueLoop == "head"

\* run_sign_v0: recv_timeout -> Ok(event), and the filters before the
\* message loop.
RecvEventV0(ev) ==
    /\ pc = "recv"
    /\ proto = "v0"
    /\ pending
    /\ pending' = FALSE
    /\ IF EventFilter(ev, reward_cycle) # "none"
       THEN /\ pc' = ContinueLoop
            /\ last' = Last(0, Other(EventFilter(ev, reward_cycle)), FALSE)
            /\ UNCHANGED todo
       ELSE /\ todo' = ZipLen(ev)
            /\ pc' = IF ZipLen(ev) = 0 THEN "check" ELSE "msgs"
            /\ last' = Last(0, Other("none"), FALSE)
    /\ UNCHANGED << outside_round, counter_vars, config_vars, next_signer_bitvec, proto, reward_cycle, elapsed,
                    tally_vars, outcome, returned, rejected_by >>

\* Variant: a message that is no block response ends the call.
IgnoredVariant_Fails(variant) == "SigningCoordinatorFailure(unexpected message)"

\* SignerMessageV0::BlockProposal(_) | BlockPushed(_) | MockSignature(_)
\* | MockProposal(_) | MockBlock(_) => continue
IgnoredVariant(variant) == "continue"

\* Variant: the signature is examined first, and one that is no signature is
\* skipped before the entry is looked up.
AcceptedWithoutEntry_Verified(signature) ==
    IF signature.kind = "ecdsa" THEN SignerEntryNotFound ELSE "continue"

\* self.signer_entries.get(&slot_id) is None for an Accepted response: the
\* call returns before the signature is looked at.
AcceptedWithoutEntry(signature) == SignerEntryNotFound

\* The effect of one iteration of the message loop of run_sign_v0 on the
\* locals: [signed, reject, gathered, tallied, exit], where exit is
\* "continue" or the way the call ends.
MessageEffect(slot, msg) ==
    LET same == [signed |-> total_weight_signed, reject |-> total_reject_weight,
                 gathered |-> gathered_signatures, tallied |-> rejected_by,
                 exit |-> "continue"]
    IN
    IF msg.type = "Rejected" THEN
        IF slot \notin DOMAIN signer_entries
        THEN [same EXCEPT !.exit = SignerEntryNotFound]
        ELSE IF RejectedForOtherBlock(msg.hash) THEN same
        ELSE LET sum == CheckedAdd(total_reject_weight, signer_entries[slot].weight)
             IN IF sum = NoneU32 THEN [same EXCEPT !.exit = Panic]
                ELSE [same EXCEPT
                        !.reject = sum,
                        !.tallied = rejected_by \cup {slot},
                        !.exit = IF RejectThresholdReached(sum, weight_threshold, total_weight)
                                 THEN SignersRejected ELSE "continue"]
    ELSE IF msg.type # "Accepted" THEN [same EXCEPT !.exit = IgnoredVariant(msg.type)]
    ELSE IF AcceptedForOtherBlock(msg.hash) THEN same
    ELSE IF slot \notin DOMAIN signer_entries
         THEN [same EXCEPT !.exit = AcceptedWithoutEntry(msg.sig)]
    ELSE IF ~signer_entries[slot].key_ok
         THEN [same EXCEPT !.exit = BadSignerKey]
    ELSE IF Verify(slot, BlockHash, msg.sig) # "true" THEN same
    ELSE LET sum == IF ~AlreadyGathered(gathered_signatures, slot)
                    THEN CheckedAdd(total_weight_signed, signer_entries[slot].weight)
                    ELSE total_weight_signed
         IN IF sum = NoneU32 THEN [same EXCEPT !.exit = Panic]
            ELSE IF ignore_signers THEN [same EXCEPT !.signed = sum]
            ELSE [same EXCEPT
                    !.signed = sum,
                    !.gathered = Insert(gathered_signatures, slot, msg.sig)]

\* One iteration of `for (message, slot_id) in messages.into_iter().zip(slot_ids)`.
HandleMessage(slot, msg) ==
    /\ pc = "msgs"
    /\ todo > 0
    /\ LET eff == MessageEffect(slot, msg)
       IN /\ total_weight_signed' = eff.signed
          /\ total_reject_weight' = eff.reject
          /\ gathered_signatures' = eff.gathered
          /\ rejected_by' = eff.tallied
          /\ last' = Last(slot, msg, slot \in DOMAIN gathered_signatures)
          /\ todo' = todo - 1
          /\ IF eff.exit = "continue"
             THEN /\ pc' = IF todo = 1 THEN "check" ELSE "msgs"
                  /\ UNCHANGED << outcome, returned >>
             ELSE Return(eff.exit, << >>)
    /\ UNCHANGED << outside_round, counter_vars, config_vars, next_signer_bitvec, proto, reward_cycle, elapsed,
                    env_vars >>

\* After the message loop: return the gathered signatures at the threshold.
CheckThreshold ==
    /\ pc = "check"
    /\ IF ThresholdReached(total_weight_signed, weight_threshold)
       THEN Return(OkGathered, Values(gathered_signatures))
       ELSE /\ pc' = "head"
            /\ UNCHANGED << outcome, returned >>
    /\ UNCHANGED << outside_round, counter_vars, config_vars, next_signer_bitvec, proto, reward_cycle, elapsed,
                    env_vars, tally_vars, todo, hist_vars >>

RECURSIVE SetModifiedSlots(_, _)
\* begin_sign_v1: modified_slots.iter().for_each(...): set the bit of every
\* modified slot; a slot id above u16 or a failed set is logged and skipped.
SetModifiedSlots(bv, slots) ==
    IF slots = << >> THEN bv
    ELSE SetModifiedSlots(
             IF Head(slots) <= U16Max THEN BitVecSet(bv, Head(slots)) ELSE bv,
             Tail(slots))

\* What process_inbound_messages yields for the packets of an event.
OperationResults == {"none", "Sign_verified", "Sign_unverified", "SignError"}

\* Only the packets of an event that passes the filters are processed.
PossibleResults(ev, rc) ==
    IF EventFilter(ev, rc) = "none" THEN OperationResults ELSE {"none"}

\* begin_sign_v1: recv_timeout -> Ok(event) and the rest of the loop body.
RecvEventV1(ev, slots, op) ==
    /\ pc = "recv"
    /\ proto = "v1"
    /\ pending
    /\ pending' = FALSE
    /\ next_signer_bitvec' =
           IF IsSignerEvent(ev)
           THEN SetModifiedSlots(next_signer_bitvec, slots)
           ELSE next_signer_bitvec
    /\ last' = Last(0, Other(EventFilter(ev, reward_cycle)), FALSE)
    /\ IF EventFilter(ev, reward_cycle) # "none" \/ op = "none"
       THEN /\ pc' = "head"
            /\ UNCHANGED << outcome, returned >>
       ELSE Return(CASE op = "Sign_verified" -> OkV1Signature
                     [] op = "Sign_unverified" -> V1BadSignature
                     [] OTHER -> V1SignError, << >>)
    /\ UNCHANGED << outside_round, counter_vars, config_vars, proto, reward_cycle, elapsed,
                    tally_vars, todo, rejected_by >>

\* ------------------------------------------------------ the environment

\* The event dispatcher sends an event to the coordinator's channel.
Deliver ==
    /\ ~pending
    /\ pending' = TRUE
    /\ UNCHANGED << outside_round, counter_vars, config_vars, next_signer_bitvec, proto, pc, reward_cycle, elapsed,
                    tally_vars, todo, outcome, returned, hist_vars >>

\* Time passes during a round.
Tick ==
    /\ pc \in {"head", "recv", "msgs", "check"}
    /\ elapsed <= SigningRoundTimeout
    /\ elapsed' = elapsed + 1
    /\ UNCHANGED << outside_round, counter_vars, config_vars, next_signer_bitvec, proto, pc, reward_cycle,
                    env_vars, tally_vars, todo, outcome, returned, hist_vars >>

Next ==
    \/ \E p \in {"v0", "v1"}, rc \in RewardCycles, ok \in BOOLEAN : BeginSign(p, rc, ok)
    \/ LoopTimeout
    \/ \E q \in QueryResults : QueryChainstate(q)
    \/ PollV1
    \/ RecvTimeout
    \/ RecvDisconnected
    \/ \E ev \in Events : RecvEventV0(ev)
    \/ \E slot \in SlotIds, msg \in Messages : HandleMessage(slot, msg)
    \/ CheckThreshold
    \/ \E ev \in Events :
          \E slots \in ModifiedSlots(ev), op \in PossibleResults(ev, reward_cycle) :
             RecvEventV1(ev, slots, op)
    \/ Deliver
    \/ Tick

Spec == Init /\ [][Next]_vars

\* The loop is not suspended between the evaluation of its condition and the
\* return that follows it.
FairSpec == Spec /\ WF_vars(LoopTimeout)

\* receiver.recv_timeout(EVENT_RECEIVER_POLL) returns, one way or another.
Receive == RecvTimeout \/ RecvDisconnected \/ (\E ev \in Events : RecvEventV0(ev))

\* The rounds of one committee in which the clock advances and the thread
\* that runs run_sign_v0 is not suspended for ever: the query of the staging
\* db, the receive, each iteration of the message loop and the tests after
\* it all return.
LiveInit ==
    RoundStart({ << Entry(U32(2), TRUE), Entry(U32(1), TRUE), Entry(U32(1), TRUE) >> },
               {FALSE})
    /\ RegistryStart /\ ClientStart /\ CodecStart /\ HttpStart /\ MinersStart
LiveSpec ==
    /\ LiveInit
    /\ [][Next]_vars
    /\ WF_vars(Tick)
    /\ WF_vars(LoopTimeout)
    /\ WF_vars(\E q \in QueryResults : QueryChainstate(q))
    /\ WF_vars(Receive)
    /\ WF_vars(\E slot \in SlotIds, msg \in Messages : HandleMessage(slot, msg))
    /\ WF_vars(CheckThreshold)

\* -------------------------------------------------- the channel registry

\* StackerDBChannel::register_miner_coordinator: hand out the receiver the
\* registry holds; if it holds none (a prior holder never returned it, or no
\* channel exists yet), make a new channel, keep its sender and hand out its
\* receiver.  replaced tells that a prior holder's channel was replaced.
RegisterMinerCoordinator(info) ==
    IF info.receiver # NoChannel
    THEN [info |-> [info EXCEPT !.receiver = NoChannel],
          receiver |-> info.receiver,
          replaced |-> FALSE]
    ELSE [info |-> [sender |-> info.created + 1, receiver |-> NoChannel,
                    created |-> info.created + 1],
          receiver |-> info.created + 1,
          replaced |-> info.sender # NoChannel]

\* StackerDBChannel::replace_receiver: the registry takes the receiver back.
ReplaceReceiver(info, receiver) == [info EXCEPT !.receiver = receiver]

\* Variant: Drop leaves the receiver in the coordinator.
Taken_Kept(receiver) == receiver

\* self.receiver after self.receiver.take()
Taken(receiver) == NoChannel

\* Variant: the round takes the receiver out of the coordinator.
BorrowedReceiver_Taken(receiver) == NoChannel

\* self.receiver after `let Some(ref mut receiver) = self.receiver`
BorrowedReceiver(receiver) == receiver

\* The ways a round ends once the proposal is published and a receiver is at hand.
RoundExits ==
    {OkGathered, OkStored, SignersRejected, TimedOut, ReceiverDisconnected,
     SignerEntryNotFound, BadSignerKey}

NoReceiver == "SigningCoordinatorFailure(Failed to obtain the StackerDB event receiver)"

\* The steps of SignCoordinator::new that can return an error, in the order
\* of the code: reward_set.signers, get_rpc_loopback, NakamotoSigningParams::
\* parse, total_signing_weight, compute_voting_weight_threshold, and the
\* slot-id map.
SetupSteps == {"signers", "rpc_loopback", "parse", "total_signing_weight",
               "threshold", "slot_ids"}

\* Variant: the registration stands before the threshold is computed.
RegistersBefore_Threshold(step) == step \in {"threshold", "slot_ids"}

\* Whether register_miner_coordinator has been called when `step` fails: it
\* is called after the last of the steps.
RegistersBefore(step) == FALSE

\* SignCoordinator::new: the fallible setup, then the registration; `failed`
\* is the step that returns an error, or "none".  A receiver obtained before
\* an error return is dropped with the locals of the call.
New(c, failed) ==
    /\ holders[c].status = "unborn"
    /\ LET reg == RegisterMinerCoordinator(sender_info)
       IN IF failed # "none"
          THEN /\ holders' = [holders EXCEPT ![c].status = "failed"]
               /\ sender_info' = IF RegistersBefore(failed) THEN reg.info ELSE sender_info
          ELSE /\ sender_info' = reg.info
               /\ holders' = [holders EXCEPT ![c] = Holder("alive", reg.receiver, reg.replaced)]
    /\ UNCHANGED << round_exit, outside_registry >>

\* run_sign_v0 as the registry sees it: it ends in some way and leaves
\* self.receiver where it is.  The channel of a receiver whose sender the
\* registry still holds is never disconnected.
RunRound(c, how) ==
    /\ holders[c].status = "alive"
    /\ how = ReceiverDisconnected => holders[c].receiver # sender_info.sender
    /\ round_exit' =
          [who |-> c,
           how |-> IF how = PublishFailed THEN PublishFailed
                   ELSE IF holders[c].receiver = NoChannel THEN NoReceiver
                   ELSE how]
    /\ holders' = [holders EXCEPT ![c].receiver = BorrowedReceiver(holders[c].receiver)]
    /\ UNCHANGED << sender_info, outside_registry >>

\* impl Drop for SignCoordinator
DropCoordinator(c) ==
    /\ holders[c].status = "alive"
    /\ IF holders[c].receiver = NoChannel
       THEN /\ holders' = [holders EXCEPT ![c].status = "panicked"]
            /\ UNCHANGED sender_info
       ELSE /\ sender_info' = ReplaceReceiver(sender_info, holders[c].receiver)
            /\ holders' = [holders EXCEPT ![c].status = "dropped",
                                          ![c].receiver = Taken(holders[c].receiver)]
    /\ UNCHANGED << round_exit, outside_registry >>

\* The thread of a coordinator is gone without its Drop having run.
Crash(c) ==
    /\ holders[c].status = "alive"
    /\ holders' = [holders EXCEPT ![c].status = "crashed"]
    /\ UNCHANGED << sender_info, round_exit, outside_registry >>

RegistryNext ==
    \/ \E c \in Coordinators, failed \in SetupSteps \cup {"none"} : New(c, failed)
    \/ \E c \in Coordinators, how \in RoundExits \cup {PublishFailed} : RunRound(c, how)
    \/ \E c \in Coordinators : DropCoordinator(c)
    \/ \E c \in Coordinators : Crash(c)

RegistryInit == RoundIdle /\ RegistryStart /\ ClientStart /\ CodecStart /\ HttpStart /\ MinersStart
RegistrySpec == RegistryInit /\ [][RegistryNext]_vars

\* -------------------------------------------------- the signer-side client

\* What the store can answer to a chunk of `version` for a slot whose stored
\* version is `stored`: the chunk is accepted only above the stored version
\* and otherwise conflicts; any chunk can be rejected for another reason or
\* for none, and any request can fail in transport.
StoreAnswers(stored, version) ==
    (IF version > stored THEN {"accepted"} ELSE {"conflict"})
        \cup {"other_reason", "bad_slot", "no_reason", "transport_error"}
Answers == {"accepted", "conflict", "other_reason", "bad_slot", "no_reason",
            "transport_error"}

VersionConflict == "Data for this slot and version already exist"
OtherReason == "Bad signature"
BadSlot == "Slot does not exist"

\* chunk_ack.reason of an answer ("none" for None).
AckReason(answer) ==
    CASE answer = "conflict" -> VersionConflict
      [] answer = "other_reason" -> OtherReason
      [] answer = "bad_slot" -> BadSlot
      [] OTHER -> "none"

\* Variant: no reason is taken for the version conflict.
IsVersionConflict_Never(reason) == FALSE

\* reason == "Data for this slot and version already exist"
IsVersionConflict(reason) == reason = VersionConflict

\* Variant: the error carries a fixed text.
PutChunkRejected_Fixed(reason) == "rejected"

\* ClientError::PutChunkRejected(reason): the reason it carries.
PutChunkRejected(reason) == reason

\* Variant: the chunk is made without the message.
StackerDBChunkData_Empty(slot, version, data) ==
    [slot_id |-> slot, slot_version |-> version, data |-> 0]

\* StackerDBChunkData::new(slot_id, slot_version, message_bytes.clone())
StackerDBChunkData(slot, version, data) ==
    [slot_id |-> slot, slot_version |-> version, data |-> data]

\* The version the store holds for a slot (0: no chunk).
StoredVersion(db, slot) == IF slot \in DOMAIN db THEN db[slot].version ELSE 0

\* Variant: the slot's entry is overwritten with 0.
OrInsertZero_Reset(versions, slot) == Insert(versions, slot, 0)

\* *self.slot_versions.entry(slot_id).or_insert(0): the map afterwards.
OrInsertZero(versions, slot) ==
    IF slot \in DOMAIN versions THEN versions ELSE Insert(versions, slot, 0)

\* Variant: the cached version is used again.
SlotVersion_Same(cached) == cached

\* let slot_version = cached + 1
SlotVersion(cached) == cached + 1

\* The version last accepted from a client for a slot (0: none, or the
\* last ack for the slot did not accept).
LastAccepted(hist, w, slot) ==
    IF slot \in DOMAIN hist.acked[w] THEN hist.acked[w][slot] ELSE 0

\* The version of the last chunk a client put for a slot (0: none).
LastPut(hist, w, slot) ==
    IF slot \in DOMAIN hist.put[w] THEN hist.put[w][slot].slot_version ELSE 0

\* The store answered the last chunk a client put for a slot.
LastPutAnswered(hist, w, slot) ==
    slot \in DOMAIN hist.put[w] /\ hist.put[w][slot].answered

\* The cached version of a slot (0: no entry).
Cached(w, slot) ==
    IF slot \in DOMAIN clients[w].slot_versions THEN clients[w].slot_versions[slot] ELSE 0

\* send_message up to the loop: serialize the packet, find the slot.
SendMessage(w, id, message, serialize_ok) ==
    /\ clients[w].call.pc = "idle"
    /\ calls < MaxCalls
    /\ calls' = calls + 1
    /\ IF serialize_ok
       THEN /\ clients' = [clients EXCEPT ![w].call =
                             [pc |-> "loop", id |-> id, message |-> message,
                              slot_id |-> slot_id(id, message),
                              message_bytes |-> calls + 1, first |-> TRUE,
                              last |-> "none"]]
            /\ UNCHANGED client_hist
       ELSE /\ client_hist' = [client_hist EXCEPT !.returned =
                                 [client |-> w, kind |-> "BincodeSerializationError",
                                  reason |-> "none", slot_version |-> 0]]
            /\ UNCHANGED clients
    /\ UNCHANGED << stackerdb, outside_client >>

\* One iteration of send_message's loop: make the chunk at the next version,
\* sign it, put it, record the version, and return or go round again.
SubmitChunk(w, sign_ok, answer) ==
    LET call == clients[w].call
        slot == call.slot_id
        versions == OrInsertZero(clients[w].slot_versions, slot)
        slot_version == SlotVersion(versions[slot])
        recorded == Insert(versions, slot, slot_version)
        reason == AckReason(answer)
        returns(kind, why) ==
            [client |-> w, kind |-> kind, reason |-> why, slot_version |-> slot_version]
        sent == StackerDBChunkData(slot, slot_version, call.message_bytes)
        chunk == [client |-> w, slot_id |-> sent.slot_id,
                  slot_version |-> sent.slot_version, data |-> sent.data,
                  first |-> call.first, retry_of |-> call.last,
                  after |-> LastAccepted(client_hist, w, slot),
                  before |-> LastPut(client_hist, w, slot)]
        put(hist) ==
            [hist EXCEPT !.chunk = chunk,
                         !.put[w] = Insert(@, slot,
                                           [slot_version |-> slot_version,
                                            answered |-> answer # "transport_error"]),
                         !.acked[w] =
                            IF answer = "transport_error" THEN @
                            ELSE Insert(@, slot,
                                        IF answer = "accepted" THEN slot_version ELSE 0)]
    IN
    /\ call.pc = "loop"
    /\ slot_version <= MaxVersion
    /\ answer \in StoreAnswers(StoredVersion(stackerdb, slot), slot_version)
    /\ IF ~sign_ok
       THEN /\ clients' = [clients EXCEPT ![w].slot_versions = versions,
                                          ![w].call = NoCall]
            /\ client_hist' =
                  [client_hist EXCEPT !.returned = returns("FailToSign", "none")]
            /\ UNCHANGED stackerdb
       ELSE /\ stackerdb' =
                  IF answer = "accepted"
                  THEN Insert(stackerdb, sent.slot_id,
                              [version |-> sent.slot_version, data |-> sent.data,
                               writer |-> w])
                  ELSE stackerdb
            /\ IF answer = "transport_error"
               THEN /\ clients' = [clients EXCEPT ![w].slot_versions = versions,
                                                  ![w].call = NoCall]
                    /\ client_hist' =
                          [put(client_hist) EXCEPT
                             !.returned = returns("PutChunkFailed", "none")]
               ELSE IF answer = "accepted"
               THEN /\ clients' = [clients EXCEPT ![w].slot_versions = recorded,
                                                  ![w].call = NoCall]
                    /\ client_hist' =
                          [put(client_hist) EXCEPT !.returned = returns("Ok", "none")]
               ELSE IF reason # "none" /\ ~IsVersionConflict(reason)
               THEN /\ clients' = [clients EXCEPT ![w].slot_versions = recorded,
                                                  ![w].call = NoCall]
                    /\ client_hist' =
                          [put(client_hist) EXCEPT
                             !.returned = returns("PutChunkRejected",
                                                  PutChunkRejected(reason))]
               ELSE /\ clients' = [clients EXCEPT ![w].slot_versions = recorded,
                                                  ![w].call.first = FALSE,
                                                  ![w].call.last = answer]
                    /\ client_hist' = put(client_hist)
    /\ UNCHANGED << calls, outside_client >>

ClientNext ==
    \/ \E w \in Clients, id \in WriterIds, message \in MessageTypes, ok \in BOOLEAN :
          SendMessage(w, id, message, ok)
    \/ \E w \in Clients, sign_ok \in BOOLEAN, answer \in Answers :
          SubmitChunk(w, sign_ok, answer)

\* send_message up to its loop, for every writer id and message type.
SlotNext ==
    \E w \in Clients, id \in AllWriterIds, message \in AllMessageTypes, ok \in BOOLEAN :
        SendMessage(w, id, message, ok)

ClientInit == RoundIdle /\ RegistryStart /\ ClientStart /\ CodecStart /\ HttpStart /\ MinersStart
ClientSpec == ClientInit /\ [][ClientNext]_vars
SlotInit == ClientInit
SlotSpec == SlotInit /\ [][SlotNext]_vars

\* ------------------------------------- the miner's StackerDB messages

\* The results of get_miner_slot: no slot (the empty range stands for None),
\* or a range of slots [start, end).
SlotRanges == {NoSlotRange, [start |-> 0, end |-> 1], [start |-> 0, end |-> 2]}
\* miner_slot_id.to_u8()
MinerSlotIds == 0..1
\* The results of stackerdbs.get_slot_version: None, or the last version.
SlotVersions == {NoVersion} \cup 0..(MaxMinerVersion - 1)

\* .unwrap_or(0).saturating_add(1)
NextSlotVersion(last_version) == (IF last_version = NoVersion THEN 0 ELSE last_version) + 1

\* slot_range.contains(&slot_id)
Contains(slot_range, slot) == slot_range.start <= slot /\ slot < slot_range.end

\* The version the node's replica holds for a slot (0: no chunk).
NodeVersion(node, slot) == IF slot \in DOMAIN node THEN node[slot] ELSE 0

\* send_miners_message: find the miner's slot, read the slot's last version
\* from the local db, make and sign the chunk at the next version, put it
\* once, and turn the node's answer into the result.
SendMinersMessage(slot_range, miner_slot_id, read_ok, last_version, sign_ok, answer) ==
    LET slot == slot_range.start + miner_slot_id
        slot_version == NextSlotVersion(last_version)
        call == [miners EXCEPT !.pc = "done", !.slot_range = slot_range,
                               !.miner_slot_id = miner_slot_id,
                               !.last_version = NoVersion, !.chunks = << >>]
        chunk == [slot_id |-> slot, slot_version |-> slot_version, answer |-> answer]
    IN /\ answer \in StoreAnswers(NodeVersion(miners.node, slot), slot_version)
       /\ IF slot_range = NoSlotRange
          THEN miners' = [call EXCEPT !.result = "No slot for miner"]
          ELSE IF ~Contains(slot_range, slot)
          THEN miners' = [call EXCEPT !.result = "Not enough slots for miner messages"]
          ELSE IF ~read_ok
          THEN miners' = [call EXCEPT !.result = "Failed to read slot version"]
          ELSE IF ~sign_ok
          THEN miners' = [call EXCEPT !.last_version = last_version,
                                      !.result = "Failed to sign StackerDB chunk"]
          ELSE IF answer = "accepted"
          THEN miners' = [call EXCEPT !.last_version = last_version,
                                      !.chunks = << chunk >>,
                                      !.result = "Ok",
                                      !.node = Insert(miners.node, slot, slot_version)]
          ELSE miners' = [call EXCEPT !.last_version = last_version,
                                      !.chunks = << chunk >>,
                                      !.result = IF answer = "transport_error"
                                                 THEN "Err(put_chunk)" ELSE "Err(ack)"]
       /\ UNCHANGED outside_miners

MinersNext ==
    \E slot_range \in SlotRanges, miner_slot_id \in MinerSlotIds, read_ok \in BOOLEAN,
       last_version \in SlotVersions, sign_ok \in BOOLEAN, answer \in Answers :
        SendMinersMessage(slot_range, miner_slot_id, read_ok, last_version, sign_ok, answer)

MinersInit ==
    RoundIdle /\ RegistryStart /\ ClientStart /\ CodecStart /\ HttpStart /\ MinersStart
MinersSpec == MinersInit /\ [][MinersNext]_vars

\* ----------------------------------------------- requests to the node

\* The functions of StacksClient that go through retry_http_request.
Callers == {"get_current_reward_cycle", "get_pox_contract", "submit_tx",
            "read_only_contract_call_with_retry"}
\* The status codes a response of the node carries.
Statuses == {200, 204, 301, 400, 404, 500}
\* The ways request_fn fails without a response (reqwest's send() errors).
TransportFailures == {"connect", "timeout"}
\* What one call of request_fn yields.
RequestOutcomes ==
    [kind : {"response"}, status : Statuses]
        \cup [kind : TransportFailures, status : {0}]

\* StatusCode::is_success.
IsSuccess_Any(status) == TRUE
IsSuccess(status) == status >= 200 /\ status < 300

\* The Result retry_http_request returns for a response of the node.
ResponseResult(status) ==
    IF IsSuccess(status)
    THEN [kind |-> "Ok", status |-> status]
    ELSE [kind |-> "RequestFailure", status |-> status]
RetryTimeout == [kind |-> "RetryTimeout", status |-> 0]

\* retry_http_request is entered by one of its callers.
RetryHttpRequest(caller) ==
    /\ http.pc \in {"idle", "done"}
    /\ http' = [pc |-> "retrying", caller |-> caller, sent |-> << >>,
                result |-> NoResponse]
    /\ UNCHANGED outside_http

\* One turn of backoff::retry_notify: request_fn is called; a response of any
\* status ends the retries and is examined by retry_http_request; a transient
\* error asks the timer for the next interval and either waits and tries
\* again, or, when the timer has none left, ends the retries with an error.
Request(o, next_backoff) ==
    /\ http.pc = "retrying"
    /\ Len(http.sent) < MaxRequests
    /\ LET sent == Append(http.sent, o)
       IN IF o.kind = "response"
          THEN http' = [http EXCEPT !.pc = "done", !.sent = sent,
                                    !.result = ResponseResult(o.status)]
          ELSE IF next_backoff /\ Len(sent) < MaxRequests
          THEN http' = [http EXCEPT !.sent = sent]
          ELSE http' = [http EXCEPT !.pc = "done", !.sent = sent,
                                    !.result = RetryTimeout]
    /\ UNCHANGED outside_http

HttpNext ==
    \/ \E caller \in Callers : RetryHttpRequest(caller)
    \/ \E o \in RequestOutcomes, next_backoff \in BOOLEAN : Request(o, next_backoff)

HttpInit == RoundIdle /\ RegistryStart /\ ClientStart /\ CodecStart /\ HttpStart /\ MinersStart
HttpSpec == HttpInit /\ [][HttpNext]_vars


\* ------------------------------------------------------------ the c32 codec

\* const C32_CHARACTERS
C32_CHARACTERS ==
    << "0", "1", "2", "3", "4", "5", "6", "7", "8", "9", "A", "B", "C", "D", "E", "F" >> \o
    << "G", "H", "J", "K", "M", "N", "P", "Q", "R", "S", "T", "V", "W", "X", "Y", "Z" >>

\* The ASCII letters, for to_uppercase.
LowerCase ==
    << "a", "b", "c", "d", "e", "f", "g", "h", "i", "j", "k", "l", "m" >> \o
    << "n", "o", "p", "q", "r", "s", "t", "u", "v", "w", "x", "y", "z" >>
UpperCase ==
    << "A", "B", "C", "D", "E", "F", "G", "H", "I", "J", "K", "L", "M" >> \o
    << "N", "O", "P", "Q", "R", "S", "T", "U", "V", "W", "X", "Y", "Z" >>

\* Code points outside ASCII, written by their names, and the bytes each
\* takes in a str.
NonAscii == {"U+00E9", "U+1D7D8"}
Utf8Len(ch) == CASE ch = "U+00E9" -> 2 [] ch = "U+1D7D8" -> 4 [] OTHER -> 1

\* str::is_ascii
is_ascii(str) == \A i \in 1..Len(str) : str[i] \notin NonAscii

\* str::len: the length in bytes.
RECURSIVE len(_)
len(str) == IF str = << >> THEN 0 ELSE Utf8Len(Head(str)) + len(Tail(str))

\* C32_CHARACTERS.find(x): the digit of a character, NotFound for None.
NotFound == 32
find(x) ==
    IF \E i \in 1..Len(C32_CHARACTERS) : C32_CHARACTERS[i] = x
    THEN (CHOOSE i \in 1..Len(C32_CHARACTERS) : C32_CHARACTERS[i] = x) - 1
    ELSE NotFound

\* char::to_uppercase on the ASCII letters (the only input c32_normalize is
\* given, every caller testing is_ascii before).
to_uppercase(x) ==
    IF \E i \in 1..Len(LowerCase) : LowerCase[i] = x
    THEN UpperCase[CHOOSE i \in 1..Len(LowerCase) : LowerCase[i] = x]
    ELSE x

\* Variant: the case of the input is kept.
Confusable_KeepCase(x) ==
    CASE x = "O" -> "0" [] x = "L" -> "1" [] x = "I" -> "1" [] OTHER -> x

\* One character through to_uppercase().replace("O","0").replace("L","1").replace("I","1")
Confusable(x) ==
    LET u == to_uppercase(x)
    IN CASE u = "O" -> "0" [] u = "L" -> "1" [] u = "I" -> "1" [] OTHER -> u

\* fn c32_normalize
c32_normalize(input_str) == [i \in 1..Len(input_str) |-> Confusable(input_str[i])]

Pow2(n) == 2 ^ n
Reverse(seq) == [i \in 1..Len(seq) |-> seq[Len(seq) + 1 - i]]
Repeat(n, x) == [i \in 1..n |-> x]

\* while let Some(v) = result.pop() { if v != zero { result.push(v); break } }
RECURSIVE PopZeros(_, _)
PopZeros(result, zero) ==
    IF result = << >> THEN result
    ELSE IF result[Len(result)] # zero THEN result
    ELSE PopZeros(SubSeq(result, 1, Len(result) - 1), zero)

\* The number of leading elements equal to zero (the for loop that breaks at
\* the first other element).
RECURSIVE LeadingZeros(_, _)
LeadingZeros(input, zero) ==
    IF input = << >> THEN 0
    ELSE IF Head(input) # zero THEN 0
    ELSE 1 + LeadingZeros(Tail(input), zero)

\* Variant: no '0' is pushed for the leading zero bytes of the input.
EncodedLeadingZeros_None(input_bytes) == << >>

\* c32_encode's loop over the leading zero bytes of the input.
EncodedLeadingZeros(input_bytes) == Repeat(LeadingZeros(input_bytes, 0), C32_CHARACTERS[1])

\* c32_encode's loop over input_bytes.iter().rev(), from byte i down, and the
\* push of the last carry.
RECURSIVE EncodeFrom(_, _, _, _, _)
EncodeFrom(input_bytes, i, result, carry, carry_bits) ==
    IF i = 0
    THEN IF carry_bits > 0 THEN Append(result, C32_CHARACTERS[carry + 1]) ELSE result
    ELSE LET current_value == input_bytes[i]
             low_bits_to_take == 5 - carry_bits
             low_bits == current_value % Pow2(low_bits_to_take)
             c32_value == low_bits * Pow2(carry_bits) + carry
             pushed == Append(result, C32_CHARACTERS[c32_value + 1])
             bits == (8 + carry_bits) - 5
             shifted == current_value \div Pow2(8 - bits)
         IN IF bits >= 5
            THEN EncodeFrom(input_bytes, i - 1,
                            Append(pushed, C32_CHARACTERS[(shifted % Pow2(5)) + 1]),
                            shifted \div Pow2(5), bits - 5)
            ELSE EncodeFrom(input_bytes, i - 1, pushed, shifted, bits)

\* fn c32_encode
c32_encode(input_bytes) ==
    Reverse(PopZeros(EncodeFrom(input_bytes, Len(input_bytes), << >>, 0, 0),
                     C32_CHARACTERS[1])
            \o EncodedLeadingZeros(input_bytes))

\* Results of the codec's functions: Ok of a string, of bytes, or of a
\* version and bytes; the errors; and a panic.
NoSum == [hi |-> 0, lo |-> 0]
CodecResult(kind, version, bytes, str, computed, expected) ==
    [kind |-> kind, version |-> version, bytes |-> bytes, str |-> str,
     computed |-> computed, expected |-> expected]
NoCodecResult == CodecResult("none", 0, << >>, << >>, NoSum, NoSum)
OkString(str) == CodecResult("Ok", 0, << >>, str, NoSum, NoSum)
OkBytes(bytes) == CodecResult("Ok", 0, bytes, << >>, NoSum, NoSum)
OkVersionBytes(version, bytes) == CodecResult("Ok", version, bytes, << >>, NoSum, NoSum)
InvalidCrockford32 == CodecResult("InvalidCrockford32", 0, << >>, << >>, NoSum, NoSum)
InvalidVersion(version) == CodecResult("InvalidVersion", version, << >>, << >>, NoSum, NoSum)
BadChecksum(computed, expected) ==
    CodecResult("BadChecksum", 0, << >>, << >>, computed, expected)
Panicked == CodecResult("Panic", 0, << >>, << >>, NoSum, NoSum)

\* c32_decode's loop over the digits, from digit i on, and the push of the
\* last carry (carry is a u16, the pushed values are u8).
RECURSIVE DecodeFrom(_, _, _, _, _)
DecodeFrom(iter_c32_digits, i, result, carry, carry_bits) ==
    IF i > Len(iter_c32_digits)
    THEN IF carry_bits > 0 THEN Append(result, carry % Pow2(8)) ELSE result
    ELSE LET added == (carry + iter_c32_digits[i] * Pow2(carry_bits)) % Pow2(16)
             bits == carry_bits + 5
         IN IF bits >= 8
            THEN DecodeFrom(iter_c32_digits, i + 1, Append(result, added % Pow2(8)),
                            added \div Pow2(8), bits - 8)
            ELSE DecodeFrom(iter_c32_digits, i + 1, result, added, bits)

\* Variant: no zero byte is pushed for the leading '0' characters.
DecodedLeadingZeros_None(input_str) == << >>

\* c32_decode's loop over the leading '0' characters of the input.
DecodedLeadingZeros(input_str) == Repeat(LeadingZeros(input_str, C32_CHARACTERS[1]), 0)

\* iter_c32_digits.len() != iter_c32_digits_opts.len(): some character was
\* not found in the alphabet.
HasNone(iter_c32_digits_opts) ==
    \E i \in 1..Len(iter_c32_digits_opts) : iter_c32_digits_opts[i] = NotFound

\* fn c32_decode
c32_decode(input_str) ==
    IF ~is_ascii(input_str) THEN InvalidCrockford32
    ELSE LET normalized == Reverse(c32_normalize(input_str))
             iter_c32_digits_opts == [i \in 1..Len(normalized) |-> find(normalized[i])]
             iter_c32_digits == SelectSeq(iter_c32_digits_opts, LAMBDA x : x # NotFound)
         IN IF HasNone(iter_c32_digits_opts) THEN InvalidCrockford32
            ELSE OkBytes(Reverse(PopZeros(DecodeFrom(iter_c32_digits, 1, << >>, 0, 0), 0)
                                 \o DecodedLeadingZeros(input_str)))

\* The sum of (position * byte) over data, the stand-in digest's input.
RECURSIVE WeightedSum(_, _)
WeightedSum(data, i) ==
    IF i > Len(data) THEN 0 ELSE i * data[i] + WeightedSum(data, i + 1)

\* The first four bytes of a digest of data.  SHA-256 belongs to the sha2
\* crate; the digest here is one of several fixed functions of the data,
\* among them the two whose four bytes are all 0 and all 255.
Digests == {"zeros", "ones", "sum"}
Digest(hash, data) ==
    CASE hash = "zeros" -> << 0, 0, 0, 0 >>
      [] hash = "ones" -> << 255, 255, 255, 255 >>
      [] hash = "sum" -> LET sum == WeightedSum(data, 1)
                         IN << sum % 256, (sum \div 256) % 256,
                               (7 * Len(data) + 3 * data[1]) % 256, (sum \div 3) % 256 >>

\* fn double_sha256_checksum
double_sha256_checksum(data) == Digest(c32.hash, data)

\* Variant: every version is encoded.
VersionTooLarge_Never(version) == FALSE

\* version >= 32
VersionTooLarge(version) == version >= 32

\* fn c32_check_encode (the index into C32_CHARACTERS panics out of bounds)
c32_check_encode(version, data) ==
    IF VersionTooLarge(version) THEN InvalidVersion(version)
    ELSE IF version >= Len(C32_CHARACTERS) THEN Panicked
    ELSE LET check_data == << version >> \o data
             checksum == double_sha256_checksum(check_data)
             encoding_data == data \o checksum
             version_char == C32_CHARACTERS[version + 1]
         IN OkString(<< version_char >> \o c32_encode(encoding_data))

\* Four bytes as a little-endian u32 (two 16-bit limbs).
LittleEndianU32(sum) == [hi |-> sum[4] * 256 + sum[3], lo |-> sum[2] * 256 + sum[1]]

\* Variant: the sums are not compared.
SumsDiffer_Never(computed_sum, expected_sum) == FALSE

\* computed_sum != expected_sum
SumsDiffer(computed_sum, expected_sum) == computed_sum # expected_sum

\* fn c32_check_decode
c32_check_decode(check_data_unsanitized) ==
    IF ~is_ascii(check_data_unsanitized) THEN InvalidCrockford32
    ELSE IF len(check_data_unsanitized) < 2 THEN InvalidCrockford32
    ELSE LET normalized == c32_normalize(check_data_unsanitized)
             version == SubSeq(normalized, 1, 1)
             data == SubSeq(normalized, 2, Len(normalized))
             data_sum_bytes == c32_decode(data)
         IN IF data_sum_bytes.kind # "Ok" THEN data_sum_bytes
            ELSE IF Len(data_sum_bytes.bytes) < 5 THEN InvalidCrockford32
            ELSE LET n == Len(data_sum_bytes.bytes)
                     data_bytes == SubSeq(data_sum_bytes.bytes, 1, n - 4)
                     expected_sum == SubSeq(data_sum_bytes.bytes, n - 3, n)
                     version_bytes == c32_decode(version)
                 IN IF version_bytes.kind # "Ok" THEN version_bytes
                    ELSE LET check_data == version_bytes.bytes \o data_bytes
                             computed_sum == double_sha256_checksum(check_data)
                         IN IF SumsDiffer(computed_sum, expected_sum)
                            THEN BadChecksum(LittleEndianU32(computed_sum),
                                             LittleEndianU32(expected_sum))
                            ELSE OkVersionBytes(check_data[1], data_bytes)

\* fn c32_address_decode: the slice &c32_address_str[1..] panics when byte 1
\* is inside the first character.
c32_address_decode(c32_address_str) ==
    IF len(c32_address_str) <= 5 THEN InvalidCrockford32
    ELSE IF Utf8Len(c32_address_str[1]) > 1 THEN Panicked
    ELSE c32_check_decode(Tail(c32_address_str))

\* fn c32_address
c32_address(version, data) ==
    LET c32_string == c32_check_encode(version, data)
    IN IF c32_string.kind # "Ok" THEN c32_string
       ELSE OkString(<< "S" >> \o c32_string.str)

\* The bytes, versions, payloads and strings the functions are applied to.
ByteValues == {0, 1, 31, 32, 128, 255}
BytesUpTo(n) == UNION {[1..k -> ByteValues] : k \in 0..n}
Versions == 0..31 \cup {32, 255}
Patterns == {<< 164, 111, 248 >>, << 16, 0, 0 >>, << 1 >>}
Payload(zeros, pattern) ==
    [i \in 1..PayloadLen |->
        IF i <= zeros THEN 0 ELSE pattern[((i - zeros - 1) % Len(pattern)) + 1]]
Payloads == {Payload(zeros, pattern) : zeros \in {0, 1, PayloadLen}, pattern \in Patterns}
ShortData == {<< >>, << 0 >>}
StrChars == {"0", "1", "Z", "o", "U", "U+00E9"}
StrsUpTo(n) == UNION {[1..k -> StrChars] : k \in 0..n}

\* Characters written over one of a string: outside ASCII, ASCII outside the
\* alphabet, and two of the alphabet.
Overwrites == {"U+00E9", "U+1D7D8", "U", "u", "!", "0", "Z"}
IsBadChar(x) == x \in NonAscii \/ find(Confusable(x)) = NotFound

\* An input of the codec: one function has not been applied yet.
Given(hash, given, version, bytes, str) ==
    [hash |-> hash, given |-> given, version |-> version, bytes |-> bytes, str |-> str,
     edit |-> "none", at |-> 0, op |-> "none", result |-> NoCodecResult]

CodecInputs ==
    c32 \in {Given("sum", "bytes", 0, bytes, << >>) : bytes \in BytesUpTo(MaxBytes)}
       \cup {Given("sum", "str", 0, << >>, str) : str \in StrsUpTo(MaxStr)}
       \cup {Given(hash, "address", version, payload, << >>) :
                hash \in Digests, version \in Versions, payload \in Payloads \cup ShortData}

\* The function applied to the input, and its result; a string produced is
\* the string the decoders are given next.
Applied(op, result) ==
    [c32 EXCEPT !.op = op, !.result = result,
                !.str = IF result.kind = "Ok" /\ op \in {"c32_encode", "c32_check_encode",
                                                         "c32_address"}
                        THEN result.str ELSE @]

Encode ==
    /\ c32.op = "none" /\ c32.given = "bytes"
    /\ c32' = Applied("c32_encode", OkString(c32_encode(c32.bytes)))
    /\ UNCHANGED outside_codec

CheckEncode ==
    /\ c32.op = "none" /\ c32.given = "address"
    /\ c32' = Applied("c32_check_encode", c32_check_encode(c32.version, c32.bytes))
    /\ UNCHANGED outside_codec

Address ==
    /\ c32.op = "none" /\ c32.given = "address"
    /\ c32' = Applied("c32_address", c32_address(c32.version, c32.bytes))
    /\ UNCHANGED outside_codec

\* A decoder is given a string as it is, or the string its encoder made.
Decodes(encoder) ==
    \/ c32.op = "none" /\ c32.given = "str"
    \/ c32.op = encoder /\ c32.result.kind = "Ok"

Decode ==
    /\ Decodes("c32_encode")
    /\ c32' = Applied("c32_decode", c32_decode(c32.str))
    /\ UNCHANGED outside_codec

CheckDecode ==
    /\ Decodes("c32_check_encode")
    /\ c32' = Applied("c32_check_decode", c32_check_decode(c32.str))
    /\ UNCHANGED outside_codec

AddressDecode ==
    /\ Decodes("c32_address")
    /\ c32' = Applied("c32_address_decode", c32_address_decode(c32.str))
    /\ UNCHANGED outside_codec

\* Another spelling of a character of the alphabet: in lower case, or as a
\* confusable letter ('O' for '0', 'L' or 'I' for '1'), or both.
Respelled(x, style) ==
    CASE style = "lower" ->
             IF \E i \in 1..Len(UpperCase) : UpperCase[i] = x
             THEN LowerCase[CHOOSE i \in 1..Len(UpperCase) : UpperCase[i] = x]
             ELSE x
      [] style = "O" -> (IF x = "0" THEN "O" ELSE x)
      [] style = "o" -> (IF x = "0" THEN "o" ELSE x)
      [] style = "L" -> (IF x = "1" THEN "L" ELSE x)
      [] style = "l" -> (IF x = "1" THEN "l" ELSE x)
      [] style = "I" -> (IF x = "1" THEN "I" ELSE x)
      [] style = "i" -> (IF x = "1" THEN "i" ELSE x)
Styles == {"lower", "O", "o", "L", "l", "I", "i"}

\* The positions of a string of length n that are respelled.
Positions(n, which) ==
    CASE which = "all" -> 1..n
      [] which = "odd" -> {i \in 1..n : i % 2 = 1}
      [] which = "even" -> {i \in 1..n : i % 2 = 0}
      [] which = "version" -> {2}

\* The caller writes the address another way: the prefix in either case, the
\* characters after it in either case or as confusable letters.
Respell(style, which) ==
    /\ c32.op = "c32_address" /\ c32.result.kind = "Ok" /\ c32.edit = "none"
    /\ LET respelled ==
              [i \in 1..Len(c32.str) |->
                  IF i \in Positions(Len(c32.str), which) /\ (i > 1 \/ style = "lower")
                  THEN Respelled(c32.str[i], style) ELSE c32.str[i]]
       IN /\ respelled # c32.str
          /\ c32' = [c32 EXCEPT !.str = respelled, !.edit = "respelled"]
    /\ UNCHANGED outside_codec

\* The caller overwrites one character of an encoded string.
Corrupt(i, x) ==
    /\ c32.op \in {"c32_encode", "c32_check_encode", "c32_address"}
    /\ c32.result.kind = "Ok" /\ c32.edit = "none"
    /\ i \in {1, 2, 3, Len(c32.str)} \cap (1..Len(c32.str))
    /\ Confusable(x) # c32.str[i]
    /\ c32' = [c32 EXCEPT !.str[i] = x, !.at = i,
                          !.edit = IF IsBadChar(x) THEN "bad_char" ELSE "changed"]
    /\ UNCHANGED outside_codec

CodecNext ==
    \/ Encode
    \/ CheckEncode
    \/ Address
    \/ Decode
    \/ CheckDecode
    \/ AddressDecode
    \/ \E style \in Styles, which \in {"all", "odd", "even", "version"} : Respell(style, which)
    \/ \E i \in 1..(2 * PayloadLen + 2), x \in Overwrites : Corrupt(i, x)

CodecInit == RoundIdle /\ RegistryStart /\ ClientStart /\ CodecInputs /\ HttpStart /\ MinersStart
CodecSpec == CodecInit /\ [][CodecNext]_vars

\* ---------------------------------------------------------------- claims

\* A step that is one iteration of the message loop; the pair it handled is
\* then (last'.msg, last'.slot).
HandledStep == pc = "msgs" /\ todo' = todo - 1

\* The message is an Accepted response for this block whose signature
\* verifies under the key of the entry at `slot`.
ValidAccepted(slot, msg) ==
    /\ msg.type = "Accepted"
    /\ msg.hash = BlockHash
    /\ slot \in DOMAIN signer_entries
    /\ signer_entries[slot].key_ok
    /\ msg.sig.kind = "ecdsa" /\ msg.sig.by = slot /\ msg.sig.over = BlockHash

\* The call has not returned.
Running == outcome = "none"

\* C1: with the fault-injection flag off, accept-weight-signed is always the
\* sum of the weights of the slots in gathered-signatures, and a valid
\* Accepted from a slot that already has a gathered signature replaces the
\* signature without adding the weight again.
C1_AcceptWeightIsSumOverGathered ==
    /\ [](~ignore_signers =>
            total_weight_signed
              = SumWeights(signer_entries, DOMAIN gathered_signatures))
    /\ [][(/\ HandledStep
           /\ ~ignore_signers
           /\ ValidAccepted(last'.slot, last'.msg)
           /\ last'.slot \in DOMAIN gathered_signatures)
          => /\ total_weight_signed' = total_weight_signed
             /\ DOMAIN gathered_signatures' = DOMAIN gathered_signatures
             /\ gathered_signatures'[last'.slot] = last'.msg.sig
             /\ \A k \in DOMAIN gathered_signatures :
                  k # last'.slot => gathered_signatures'[k] = gathered_signatures[k]
             /\ Running']_vars

\* A second, different valid signature of slot 0 has just replaced the first.
C1_Witness ==
    /\ ~ignore_signers
    /\ Running
    /\ last.had
    /\ last.slot = 0
    /\ last.msg = Accepted(BlockHash, Sig(0, BlockHash, 2))
    /\ gathered_signatures[0] = Sig(0, BlockHash, 2)
    /\ total_weight_signed = U32(2)

\* C2: the gathered signatures are returned only after all messages of an
\* event are processed and accept-weight-signed >= T, and exactly then; the
\* value returned is the gathered signatures, one per slot of the map (whose
\* weights, with the fault-injection flag off, add up to the accept weight);
\* once the call has returned no event is taken from the channel.
C2_ReturnsGatheredOnlyAtThreshold ==
    /\ [](outcome = OkGathered =>
            /\ Geq(total_weight_signed, weight_threshold)
            /\ todo = 0
            /\ returned = Values(gathered_signatures)
            /\ Len(returned) = Cardinality(DOMAIN gathered_signatures)
            /\ ~ignore_signers =>
                 /\ \A k \in DOMAIN gathered_signatures :
                      \E i \in 1..Len(returned) : returned[i].by = k
                 /\ SumWeights(signer_entries, { returned[i].by : i \in 1..Len(returned) })
                      = total_weight_signed)
    /\ [][(pc = "check" /\ pc' # "check")
          => IF Geq(total_weight_signed, weight_threshold)
             THEN outcome' = OkGathered
             ELSE Running' /\ pc' = "head"]_vars
    /\ [][(pc # "check") => (outcome' = OkGathered => outcome = OkGathered)]_vars
    /\ [][~Running => (pc' = pc /\ outcome' = outcome /\ returned' = returned
                        /\ (pending => pending'))]_vars

\* The threshold was met exactly (2 + 1 = T = 3) by the second message of an
\* event, with an event still waiting in the channel.
C2_Witness ==
    /\ outcome = OkGathered
    /\ ~ignore_signers
    /\ total_weight_signed = weight_threshold
    /\ Len(returned) = 2
    /\ pending

\* C3 (as claimed): a Rejected response for this block from a signer adds the
\* signer's weight to reject-weight; the call returns SignersRejected at once (leaving
\* the remaining messages of the event unprocessed) if reject-weight + T >
\* total-weight then holds, and otherwise goes on.
C3_RejectAddsWeightAndEndsAtMajority ==
    [][(/\ HandledStep
        /\ last'.msg = Rejected(BlockHash)
        /\ last'.slot \in DOMAIN signer_entries)
       => /\ total_reject_weight'
               = Plus(total_reject_weight, signer_entries[last'.slot].weight)
          /\ IF Gt(Plus(total_reject_weight', weight_threshold), total_weight)
             THEN outcome' = SignersRejected /\ pc' = "done"
             ELSE Running' /\ pc' \in {"msgs", "check"}]_vars

\* C4 (as claimed): reject-weight is always the sum of the weights of the
\* distinct slots that sent a Rejected response for this block.
C4_RejectWeightCountsEachSignerOnce ==
    total_reject_weight = SumWeights(signer_entries, rejected_by)

\* C5: an Accepted response whose response_hash is not the block's
\* signer_signature_hash changes neither tally nor the gathered signatures,
\* whatever its slot id, and the round goes on with the next message.
C5_AcceptedForOtherBlockIgnored ==
    [][(/\ HandledStep
        /\ last'.msg.type = "Accepted"
        /\ last'.msg.hash # BlockHash)
       => /\ UNCHANGED tally_vars
          /\ Running'
          /\ pc' \in {"msgs", "check"}]_vars

\* Such a response from the slot id without a signer entry was just skipped.
C5_Witness ==
    /\ last.msg = Accepted(OtherHash, Sig(0, OtherHash, 1))
    /\ last.slot \notin DOMAIN signer_entries
    /\ Running
    /\ pc = "msgs"

\* C6 (as claimed): a Rejected response whose signer_signature_hash is not
\* the block's is ignored whatever its slot id: the tallies are unchanged and
\* the round does not end because of it.
C6_RejectedForOtherBlockIgnored ==
    [][(/\ HandledStep
        /\ last'.msg = Rejected(OtherHash))
       => /\ UNCHANGED tally_vars
          /\ Running']_vars

\* C7: when the loop condition is evaluated after signing_round_timeout has
\* elapsed, the call returns SignerSignatureError("Timed out waiting for
\* group signature"), whatever the tallies; it returns that error in no
\* other case.
C7_TimeoutReturnsTimedOut ==
    /\ [][(pc = "head" /\ elapsed > SigningRoundTimeout /\ pc' # pc)
          => outcome' = TimedOut]_vars
    /\ [][(outcome' = TimedOut /\ Running)
          => (pc = "head" /\ elapsed > SigningRoundTimeout)]_vars
    /\ (pc = "head" /\ elapsed > SigningRoundTimeout) ~> (outcome = TimedOut)

\* A v0 round timed out without any tally.
C7_Witness ==
    /\ outcome = TimedOut
    /\ proto = "v0"
    /\ total_weight_signed = U32(0)
    /\ total_reject_weight = U32(0)
    /\ gathered_signatures = EmptyMap
    /\ ~pending

\* C8: in run_sign_v0 every receive is preceded, in the same wakeup, by the
\* chainstate query, and a query that finds the stored block returns the
\* stored signer_signature vector at once, whatever the tallies and whether
\* or not an event is waiting.
C8_StoredBlockReturnedAtWakeup ==
    /\ [][\A q \in QueryResults :
            (QueryChainstate(q) /\ q.ok /\ q.found)
            => /\ outcome' = OkStored
               /\ returned' = q.block
               /\ pending' = pending]_vars
    /\ [][(proto = "v0" /\ pc' = "recv" /\ pc # "recv")
          => \E q \in QueryResults : QueryChainstate(q)]_vars
    /\ [][(pending /\ ~pending') => pc = "recv"]_vars

\* The stored vector was returned below the threshold, with signatures
\* gathered locally and an event waiting.
C8_Witness ==
    /\ outcome = OkStored
    /\ returned \in StoredVectors
    /\ pending
    /\ gathered_signatures # EmptyMap
    /\ ~Geq(total_weight_signed, weight_threshold)
    /\ returned # Values(gathered_signatures)

\* C9: a SignerMessages event of the other signer set changes no tally and
\* no gathered signature and ends nothing, whatever it carries.
C9_OtherSignerSetEventIgnored ==
    [][(pc = "recv" /\ proto = "v0" /\ pending /\ ~pending')
       => \A ev \in Events :
            (/\ RecvEventV0(ev)
             /\ ev.is_signer_event
             /\ ev.parsed = "SignerMessages"
             /\ ev.signer_set # reward_cycle % 2)
            => /\ UNCHANGED tally_vars
               /\ UNCHANGED << todo, returned >>
               /\ Running'
               /\ pc' = "head"]_vars

\* Such an event, carrying messages, was just dropped during a round that
\* had gathered a signature.
C9_Witness ==
    /\ last.msg = Other("other_signer_set")
    /\ proto = "v0"
    /\ pc = "head"
    /\ Running
    /\ gathered_signatures # EmptyMap

\* An error that ends the round.
IsError(o) == o \notin {"none", OkGathered, OkStored, OkTestSigning, OkV1Signature}

\* C10 (as claimed): after a signer event is received, the bit of each of
\* its modified slots within the bitvec is set, and a modified slot out of
\* range ends the round with an error.
C10_ModifiedSlotsSetInBitvec ==
    /\ [][\A ev \in Events, op \in OperationResults :
            \A slots \in ModifiedSlots(ev) :
              (RecvEventV1(ev, slots, op) /\ ev.is_signer_event)
              => \A i \in 1..Len(slots) :
                    IF slots[i] \in DOMAIN next_signer_bitvec
                    THEN next_signer_bitvec'[slots[i]]
                    ELSE IsError(outcome')]_vars
    /\ [][HandledStep
          => IF last'.slot \in DOMAIN next_signer_bitvec
             THEN next_signer_bitvec'[last'.slot]
             ELSE IsError(outcome')]_vars

\* C11 (as claimed): whatever events arrive, run_sign_v0 ends by returning Ok
\* or an Err value, never by an abort from checked arithmetic or an unwrap.
C11_NeverPanics == outcome # Panic

\* The coordinator holds a receiver on which the dispatcher's events arrive.
GetsEvents(c) ==
    /\ holders[c].receiver # NoChannel
    /\ holders[c].receiver = sender_info.sender

\* C12: at most one coordinator holds the receiver that gets the events,
\* under any interleaving of creations, rounds, drops and crashes; no
\* receiver is held by two coordinators or by a coordinator and the registry.
C12_OneHolderOfTheChannel ==
    /\ \A c, d \in Coordinators :
          (GetsEvents(c) /\ GetsEvents(d)) => c = d
    /\ \A c, d \in Coordinators :
          (c # d /\ holders[c].receiver # NoChannel)
          => holders[c].receiver # holders[d].receiver
    /\ \A c \in Coordinators :
          holders[c].receiver # NoChannel => holders[c].receiver # sender_info.receiver

\* A coordinator registered while a crashed one and a live one still held
\* receivers.
C12_Witness ==
    \E a, b, c \in Coordinators :
        /\ holders[a].status = "crashed" /\ holders[a].receiver # NoChannel
        /\ holders[b].status = "alive" /\ holders[b].receiver # NoChannel
        /\ holders[c].status = "alive" /\ holders[c].replaced_other
        /\ GetsEvents(c)

\* C13: however a round ends, the coordinator still owns its receiver; Drop
\* hands the receiver back to the registry, and the next coordinator to
\* register gets the receiver the registry holds.
C13_ReceiverSurvivesRoundAndIsReturned ==
    /\ [][\A c \in Coordinators, how \in RoundExits \cup {PublishFailed} :
            RunRound(c, how)
            => /\ holders'[c].receiver = holders[c].receiver
               /\ holders'[c].receiver # NoChannel
               /\ round_exit'.how = how]_vars
    /\ [][\A c \in Coordinators :
            DropCoordinator(c)
            => /\ sender_info'.receiver = holders[c].receiver
               /\ sender_info'.receiver # NoChannel
               /\ holders'[c].status = "dropped"]_vars
    /\ [][\A c \in Coordinators :
            (New(c, "none") /\ sender_info.receiver # NoChannel)
            => /\ holders'[c].receiver = sender_info.receiver
               /\ ~holders'[c].replaced_other]_vars

\* A coordinator whose round failed was dropped, and the next coordinator
\* holds the one channel ever made.
C13_Witness ==
    \E c, d \in Coordinators :
        /\ round_exit = [who |-> c, how |-> SignerEntryNotFound]
        /\ holders[c].status = "dropped"
        /\ holders[d].status = "alive"
        /\ holders[d].receiver # NoChannel
        /\ ~holders[d].replaced_other
        /\ sender_info.created = 1

\* C20: after a send_message of a client had its chunk accepted at version v
\* for a slot, the first chunk of the client's next send_message to that slot
\* has version v + 1.
C20_NextWriteUsesNextVersion ==
    [][\A w \in Clients, answer \in Answers :
          LET slot == clients[w].call.slot_id
          IN (/\ SubmitChunk(w, TRUE, answer)
              /\ clients[w].call.first
              /\ LastAccepted(client_hist, w, slot) > 0)
             => /\ client_hist'.chunk.client = w
                /\ client_hist'.chunk.slot_id = slot
                /\ client_hist'.chunk.slot_version = LastAccepted(client_hist, w, slot) + 1]_vars

\* The first chunk of a call was put at version 2 for a slot whose last
\* chunk from this client was accepted at version 1.
C20_Witness ==
    /\ client_hist.chunk.first
    /\ client_hist.chunk.after = 1
    /\ client_hist.chunk.slot_version = 2
    /\ client_hist.chunk.slot_id = slot_id(1, "NonceRequest")

\* C14: c32_address succeeds for every version below 32 and every 20-byte
\* payload, and c32_address_decode of the address it makes gives back the
\* version and the payload, leading zero bytes included.
C14_AddressRoundTrip ==
    (c32.given = "address" /\ c32.version < 32 /\ Len(c32.bytes) = PayloadLen
        /\ c32.edit = "none")
    => /\ c32.op = "c32_address" => c32.result.kind = "Ok"
       /\ c32.op = "c32_address_decode"
             => c32.result = OkVersionBytes(c32.version, c32.bytes)

\* The address of version 31 and the all-zero payload, under the digest
\* whose bytes are all zero, was decoded.
C14_Witness ==
    /\ c32.given = "address" /\ c32.op = "c32_address_decode" /\ c32.edit = "none"
    /\ c32.hash = "zeros" /\ c32.version = 31
    /\ c32.bytes = Repeat(PayloadLen, 0)
    /\ c32.result.kind = "Ok"

\* C15: c32_decode of c32_encode(b) is b for every byte sequence b, and
\* c32_encode(b) starts with as many '0' characters as b starts with zero
\* bytes.
C15_EncodeDecodeRoundTrip ==
    (c32.given = "bytes" /\ c32.edit = "none")
    => /\ c32.op = "c32_encode"
             => LeadingZeros(c32.str, "0") = LeadingZeros(c32.bytes, 0)
       /\ c32.op = "c32_decode" => c32.result = OkBytes(c32.bytes)

\* The bytes 0, 0, 1 came back from their encoding "001".
C15_Witness ==
    /\ c32.given = "bytes" /\ c32.op = "c32_decode" /\ c32.edit = "none"
    /\ c32.bytes = << 0, 0, 1 >>
    /\ c32.str = << "0", "0", "1" >>
    /\ c32.result.kind = "Ok"

\* C16: an address written in lower case, or with 'O' for '0' or 'L' or 'I'
\* for '1' after the prefix, decodes to what the address decodes to.
C16_RespelledAddressDecodesTheSame ==
    (c32.given = "address" /\ c32.op = "c32_address_decode" /\ c32.edit = "respelled")
    => c32.result = c32_address_decode(c32_address(c32.version, c32.bytes).str)

\* An address of version 0 whose version digit was written 'o' was decoded.
C16_Witness ==
    /\ c32.given = "address" /\ c32.op = "c32_address_decode" /\ c32.edit = "respelled"
    /\ c32.str[2] = "o"
    /\ c32.result = OkVersionBytes(0, c32.bytes)

\* A decoder was applied.
Decoded == c32.op \in {"c32_decode", "c32_check_decode", "c32_address_decode"}

\* C17 (as claimed): a decoder given a string with a character outside
\* ASCII, or outside the alphabet after normalization, at any position,
\* fails with InvalidCrockford32.
C17_BadCharIsInvalidCrockford32 ==
    (Decoded /\ \E i \in 1..Len(c32.str) : IsBadChar(c32.str[i]))
    => c32.result = InvalidCrockford32

\* C18: c32_check_encode and c32_address fail with InvalidVersion(v) for a
\* version of 32 or more and succeed below 32 whatever the payload; the
\* character after 'S' of an address is the digit of the version.
C18_VersionChecked ==
    /\ c32.op = "c32_check_encode"
          => IF c32.version >= 32 THEN c32.result = InvalidVersion(c32.version)
             ELSE /\ c32.result.kind = "Ok"
                  /\ c32.result.str[1] = C32_CHARACTERS[c32.version + 1]
    /\ c32.op = "c32_address"
          => IF c32.version >= 32 THEN c32.result = InvalidVersion(c32.version)
             ELSE /\ c32.result.kind = "Ok"
                  /\ c32.result.str[1] = "S"
                  /\ c32.result.str[2] = C32_CHARACTERS[c32.version + 1]

\* c32_address was refused version 255.
C18_Witness ==
    /\ c32.op = "c32_address" /\ c32.version = 255
    /\ c32.result = InvalidVersion(255)

\* The string c32_check_decode was given is ASCII, of alphabet characters
\* after normalization, with a version character and a body of 5 bytes or
\* more.
WellFormed(str) ==
    /\ \A i \in 1..Len(str) : ~IsBadChar(str[i])
    /\ Len(str) >= 2
    /\ Len(c32_decode(Tail(c32_normalize(str))).bytes) >= 5

\* C19: c32_check_decode of a well-formed string returns the version and the
\* payload when the last 4 bytes of the body are the checksum of version and
\* payload, and otherwise fails with BadChecksum of the computed and the
\* expected 4 bytes, each read as a little-endian u32.
C19_ChecksumCompared ==
    (c32.op = "c32_check_decode" /\ WellFormed(c32.str))
    => LET body == c32_decode(Tail(c32_normalize(c32.str))).bytes
           payload == SubSeq(body, 1, Len(body) - 4)
           expected == SubSeq(body, Len(body) - 3, Len(body))
           version == find(Confusable(c32.str[1]))
           computed == double_sha256_checksum(<< version >> \o payload)
           u32(b) == [hi |-> b[4] * 256 + b[3], lo |-> b[2] * 256 + b[1]]
       IN IF computed = expected
          THEN c32.result = OkVersionBytes(version, payload)
          ELSE c32.result = BadChecksum(u32(computed), u32(expected))

\* A check-encoded string whose last character was changed failed with
\* BadChecksum.
C19_Witness ==
    /\ c32.op = "c32_check_decode" /\ c32.edit = "changed" /\ c32.at = Len(c32.str)
    /\ c32.hash = "sum"
    /\ c32.result.kind = "BadChecksum"
    /\ c32.result.computed # c32.result.expected

\* C21: a chunk answered with the version-conflict reason is followed, in the
\* same call, by a chunk of the same payload for the same slot at the next
\* version, and the call returns the Ack of the first chunk accepted.
C21_ConflictRetriedAtNextVersion ==
    [][\A w \in Clients, answer \in Answers :
          LET call == clients[w].call
          IN SubmitChunk(w, TRUE, answer)
             => /\ answer = "conflict"
                      => /\ clients'[w].call = [call EXCEPT !.first = FALSE,
                                                            !.last = "conflict"]
                         /\ client_hist'.returned = client_hist.returned
                /\ call.last = "conflict"
                      => /\ client_hist'.chunk.client = w
                         /\ client_hist'.chunk.slot_id = call.slot_id
                         /\ client_hist'.chunk.data = call.message_bytes
                         /\ client_hist'.chunk.slot_version
                               = LastPut(client_hist, w, call.slot_id) + 1
                /\ answer = "accepted"
                      => /\ clients'[w].call.pc = "idle"
                         /\ client_hist'.returned =
                               [client |-> w, kind |-> "Ok", reason |-> "none",
                                slot_version |-> client_hist'.chunk.slot_version]]_vars

\* A call returned Ok for its third chunk, put after two version conflicts.
C21_Witness ==
    /\ client_hist.returned.kind = "Ok"
    /\ client_hist.returned.client = client_hist.chunk.client
    /\ client_hist.returned.slot_version = 3
    /\ client_hist.chunk.slot_version = 3
    /\ client_hist.chunk.retry_of = "conflict"
    /\ stackerdb[client_hist.chunk.slot_id].data = client_hist.chunk.data
    /\ clients[client_hist.chunk.client].call.pc = "idle"

\* C22: a chunk answered accepted=false with another reason than the version
\* conflict ends the call with PutChunkRejected of that very reason; no
\* further chunk is put in the call.
C22_OtherReasonReturnsPutChunkRejected ==
    [][\A w \in Clients, answer \in {"other_reason", "bad_slot"} :
          SubmitChunk(w, TRUE, answer)
          => /\ client_hist'.returned.client = w
             /\ client_hist'.returned.kind = "PutChunkRejected"
             /\ client_hist'.returned.reason = AckReason(answer)
             /\ clients'[w].call.pc = "idle"
             /\ stackerdb' = stackerdb]_vars

\* A call ended with PutChunkRejected("Slot does not exist").
C22_Witness ==
    /\ client_hist.returned.kind = "PutChunkRejected"
    /\ client_hist.returned.reason = BadSlot
    /\ clients[client_hist.returned.client].call.pc = "idle"
    /\ client_hist.chunk.client = client_hist.returned.client

\* C23 (as claimed): every chunk a client puts for a slot has a higher
\* version than the chunk it put for the slot before, whatever the store
\* answered.
C23_SubmittedVersionsIncrease ==
    [][\A w \in Clients, answer \in Answers :
          SubmitChunk(w, TRUE, answer)
          => client_hist'.chunk.slot_version
                > LastPut(client_hist, w, clients[w].call.slot_id)]_vars

\* C23 (amended): the versions of the chunks a client puts for a slot never
\* decrease, and a chunk put after one that the store answered (accept,
\* version conflict, other rejection) has a higher version; only after a
\* chunk that failed in transport is the version used again.
C23_VersionsIncreaseAfterEachAnswer ==
    [][\A w \in Clients, answer \in Answers :
          LET slot == clients[w].call.slot_id
          IN SubmitChunk(w, TRUE, answer)
             => IF slot \in DOMAIN client_hist.put[w]
                   /\ ~LastPutAnswered(client_hist, w, slot)
                THEN client_hist'.chunk.slot_version = LastPut(client_hist, w, slot)
                ELSE client_hist'.chunk.slot_version > LastPut(client_hist, w, slot)]_vars

\* A call put version 1 for a slot again, after a call whose chunk of
\* version 1 had failed in transport, and it was accepted.
C23_Witness ==
    /\ client_hist.chunk.first
    /\ client_hist.chunk.slot_version = 1
    /\ client_hist.chunk.before = 1
    /\ client_hist.returned = [client |-> client_hist.chunk.client, kind |-> "Ok",
                               reason |-> "none", slot_version |-> 1]

\* C24 (as claimed): the cached version of a slot changes only when a chunk is
\* accepted, and then to the version accepted; a chunk that is rejected or
\* fails in transport leaves it as it was.
C24_CacheUpdatedOnlyOnAccept ==
    [][\A w \in Clients, sign_ok \in BOOLEAN, answer \in Answers :
          LET slot == clients[w].call.slot_id
          IN SubmitChunk(w, sign_ok, answer)
             => IF sign_ok /\ answer = "accepted"
                THEN Cached(w, slot)' = client_hist'.chunk.slot_version
                ELSE Cached(w, slot)' = Cached(w, slot)]_vars

\* C25: with two clients writing to one slot, the stored version of a slot
\* never decreases; a chunk is accepted only above the stored version and
\* then the store holds its payload at that version; a version conflict
\* changes nothing in the store and the call goes on.
C25_WritesSerializedPerSlot ==
    [][/\ \A slot \in DOMAIN stackerdb :
             /\ slot \in DOMAIN stackerdb'
             /\ stackerdb'[slot].version >= stackerdb[slot].version
       /\ \A w \in Clients, answer \in Answers :
             LET call == clients[w].call
             IN SubmitChunk(w, TRUE, answer)
                => /\ answer = "accepted"
                         => /\ client_hist'.chunk.slot_version
                                  > StoredVersion(stackerdb, call.slot_id)
                            /\ stackerdb'[call.slot_id]
                                  = [version |-> client_hist'.chunk.slot_version,
                                     data |-> call.message_bytes, writer |-> w]
                            /\ client_hist'.returned.kind = "Ok"
                   /\ answer = "conflict"
                         => /\ stackerdb' = stackerdb
                            /\ clients'[w].call.pc = "loop"]_vars

\* Both clients had a chunk accepted for the same slot, the second one after
\* a version conflict, and the store holds the second payload.
C25_Witness ==
    \E slot \in DOMAIN stackerdb :
        /\ LastAccepted(client_hist, 1, slot) = 1
        /\ LastAccepted(client_hist, 2, slot) = 2
        /\ client_hist.chunk.client = 2
        /\ client_hist.chunk.retry_of = "conflict"
        /\ stackerdb[slot] = [version |-> 2, data |-> client_hist.chunk.data, writer |-> 2]
        /\ clients[1].call.pc = "idle" /\ clients[2].call.pc = "idle"

\* C26: the slot of a message is SLOTS_PER_USER * writer id + the index of its
\* type, with SLOTS_PER_USER = 10 and the index in 0..9; so it lies in the
\* writer's range of ten slots, and two calls have the same slot only for the
\* same writer id and the same message type.
C26_SlotOfWriterAndType ==
    /\ SLOTS_PER_USER = 10
    /\ \A w \in Clients :
          LET call == clients[w].call
          IN call.pc = "loop"
             => /\ MessageTypeIndex(call.message) \in 0..9
                /\ call.slot_id = 10 * call.id + MessageTypeIndex(call.message)
                /\ call.slot_id \in (10 * call.id)..(10 * call.id + 9)
    /\ \A w1, w2 \in Clients :
          (/\ clients[w1].call.pc = "loop" /\ clients[w2].call.pc = "loop"
           /\ clients[w1].call.slot_id = clients[w2].call.slot_id)
          => /\ clients[w1].call.id = clients[w2].call.id
             /\ clients[w1].call.message = clients[w2].call.message

\* Writer 2 sends a SignatureShareResponse (slot 29) while writer 0 sends
\* DkgPublicShares (slot 4).
C26_Witness ==
    /\ clients[1].call.pc = "loop" /\ clients[1].call.id = 2
    /\ clients[1].call.message = "SignatureShareResponse"
    /\ clients[1].call.slot_id = 29
    /\ clients[2].call.pc = "loop" /\ clients[2].call.id = 0
    /\ clients[2].call.message = "DkgPublicShares"
    /\ clients[2].call.slot_id = 4


\* C27: a response that arrives with a non-2xx status ends retry_http_request
\* with RequestFailure(status) after that single request, without retry; only
\* requests that failed without a response are followed by another request,
\* and the call ends with RetryTimeout exactly when the backoff gave up after
\* such a failure.
C27_OnlyTransportFailuresRetried ==
    /\ \A i \in 1..Len(http.sent) :
          http.sent[i].kind = "response" =>
              /\ i = Len(http.sent)
              /\ http.pc = "done"
              /\ http.sent[i].status \notin 200..299 =>
                    http.result = [kind |-> "RequestFailure",
                                   status |-> http.sent[i].status]
              /\ http.sent[i].status \in 200..299 =>
                    http.result = [kind |-> "Ok", status |-> http.sent[i].status]
    /\ http.result.kind = "RetryTimeout" <=>
          /\ http.pc = "done"
          /\ http.sent # << >>
          /\ http.sent[Len(http.sent)].kind \in TransportFailures
    /\ http.pc = "retrying" => http.result = NoResponse

\* A 404 answered the second request, after one failed connection: the call
\* ended there with RequestFailure(404).
C27_Witness ==
    /\ http.pc = "done"
    /\ Len(http.sent) = 2
    /\ http.sent[1].kind = "connect"
    /\ http.sent[2] = [kind |-> "response", status |-> 404]
    /\ http.result = [kind |-> "RequestFailure", status |-> 404]


\* C28: in a run_sign_v0 round nothing is received from the channel and the
\* chainstate is not queried before the proposal has been published; a failed
\* publish ends the call with SigningCoordinatorFailure there: no event is
\* taken from the channel, nothing is tallied, and the block is not counted
\* as proposed.
C28_ProposalPublishedFirst ==
    /\ []((proto = "v0" /\ pc \in {"head", "recv", "msgs", "check"})
            => naka_proposed_blocks = 1 /\ outcome = "none")
    /\ [][(proto' = "v0" /\ ((pending /\ ~pending') \/ last' # last \/ outcome' = OkStored))
            => pc # "idle" /\ naka_proposed_blocks = 1]_vars
    /\ []((proto = "v0" /\ outcome = PublishFailed)
            => /\ pc = "done"
               /\ naka_proposed_blocks = 0
               /\ last = Last(0, Other("none"), FALSE)
               /\ rejected_by = {}
               /\ gathered_signatures = EmptyMap
               /\ returned = << >>)
    /\ [][(pc = "idle" /\ proto' = "v0" /\ outcome' = PublishFailed)
            => pending' = pending /\ last' = last]_vars

\* The publish failed while an event was waiting in the channel: the round
\* ended with the event still there and no block counted.
C28_Witness ==
    /\ proto = "v0"
    /\ outcome = PublishFailed
    /\ pending
    /\ naka_proposed_blocks = 0


\* C29: the coordinator's publish follows the replicated-slot write contract:
\* a chunk the store answers with the version conflict is followed, in the
\* same call, by a chunk at the next version; the first chunk's version is
\* the slot's last version plus 1 (1 when the slot has none).
C29_PublishRetriedOnConflict ==
    /\ \A i \in 1..Len(miners.chunks) :
          miners.chunks[i].answer = "conflict" =>
              /\ i < Len(miners.chunks)
              /\ miners.chunks[i + 1].slot_version = miners.chunks[i].slot_version + 1
    /\ miners.chunks # << >> =>
          miners.chunks[1].slot_version =
              IF miners.last_version = NoVersion THEN 1 ELSE miners.last_version + 1


\* C30: in run_sign_v0 an Accepted response for the current block whose slot
\* id has no signer entry ends the round with SignerSignatureError (signer
\* entry not found), whatever its signature is: nothing is tallied and
\* nothing is returned.
C30_AcceptedWithoutEntryEndsRound ==
    [][(HandledStep /\ last'.msg.type = "Accepted" /\ last'.msg.hash = BlockHash
           /\ last'.slot \notin DOMAIN signer_entries)
         => /\ outcome' = SignerEntryNotFound
            /\ pc' = "done"
            /\ returned' = << >>
            /\ UNCHANGED tally_vars]_vars

\* The round ended on an Accepted response from a slot without an entry,
\* carrying bytes that are no signature.
C30_Witness ==
    /\ outcome = SignerEntryNotFound
    /\ last.msg.type = "Accepted"
    /\ last.msg.hash = BlockHash
    /\ last.msg.sig = MalformedSig
    /\ last.slot \notin DOMAIN signer_entries


\* The message is an Accepted response for this block from a slot whose
\* entry has a usable key, with a signature that does not verify under it.
InvalidAccepted(slot, msg) ==
    /\ msg.type = "Accepted"
    /\ msg.hash = BlockHash
    /\ slot \in DOMAIN signer_entries
    /\ signer_entries[slot].key_ok
    /\ ~(msg.sig.kind = "ecdsa" /\ msg.sig.by = slot /\ msg.sig.over = BlockHash)

\* C31: an Accepted response for the current block whose signature does not
\* verify under the signer entry's key is skipped: the accept weight, the
\* reject weight and the gathered signatures are unchanged and the round goes
\* on; a valid Accepted from a slot without a gathered signature is counted
\* in whatever state it arrives, so also after invalid ones from that slot.
C31_InvalidSignatureSkipped ==
    /\ [][(HandledStep /\ InvalidAccepted(last'.slot, last'.msg))
            => /\ UNCHANGED tally_vars
               /\ rejected_by' = rejected_by
               /\ Running']_vars
    /\ [][(/\ HandledStep
           /\ ~ignore_signers
           /\ ValidAccepted(last'.slot, last'.msg)
           /\ last'.slot \notin DOMAIN gathered_signatures)
            => /\ total_weight_signed'
                    = Plus(total_weight_signed, signer_entries[last'.slot].weight)
               /\ FitsU32(total_weight_signed')
               /\ gathered_signatures'
                    = Insert(gathered_signatures, last'.slot, last'.msg.sig)
               /\ Running']_vars

\* Slot 1 sent an Accepted carrying the signature of signer 0: it was skipped,
\* and the tally still holds the signature of slot 0 only.
C31_Witness ==
    /\ Running
    /\ last.slot = 1
    /\ last.msg = Accepted(BlockHash, Sig(0, BlockHash, 1))
    /\ DOMAIN gathered_signatures = {0}
    /\ 1 \in DOMAIN signer_entries


\* C32: when the channel is found disconnected at the receive of run_sign_v0,
\* the call returns SigningCoordinatorFailure and no signature, whatever the
\* tallies are; the tallies themselves are left as they were.
C32_DisconnectFailsTheRound ==
    /\ [][(proto = "v0" /\ pc = "recv" /\ pc' = "done")
            => /\ ~pending
               /\ outcome' = ReceiverDisconnected
               /\ returned' = << >>
               /\ UNCHANGED tally_vars]_vars
    /\ []((proto = "v0" /\ outcome = ReceiverDisconnected) => returned = << >>)

\* The channel was disconnected after signatures had been gathered: none of
\* them was returned.
C32_Witness ==
    /\ proto = "v0"
    /\ outcome = ReceiverDisconnected
    /\ gathered_signatures # EmptyMap
    /\ total_weight_signed # U32(0)
    /\ returned = << >>


\* C33: in run_sign_v0 an event of a contract that is not a signers boot
\* contract, an event that is not a SignerMessages event, and a message of
\* variant BlockProposal, BlockPushed, MockSignature, MockProposal or
\* MockBlock each leave the accept weight, the reject weight and the gathered
\* signatures unchanged and do not end the call.
C33_ForeignEventsAndMessagesIgnored ==
    /\ [][\A ev \in Events :
            (RecvEventV0(ev) /\ (~ev.is_signer_event \/ ev.parsed = "OtherVariant"))
            => /\ UNCHANGED tally_vars
               /\ rejected_by' = rejected_by
               /\ Running'
               /\ pc' = "head"]_vars
    /\ [][(HandledStep /\ last'.msg.type \in IgnoredTypes)
            => /\ UNCHANGED tally_vars
               /\ rejected_by' = rejected_by
               /\ Running'
               /\ pc' \in {"msgs", "check"}]_vars

\* A BlockPushed message was skipped while the tallies held a signature and
\* a rejection.
C33_Witness ==
    /\ Running
    /\ last.msg = Other("BlockPushed")
    /\ gathered_signatures # EmptyMap
    /\ rejected_by # {}

\* An event that is not a SignerMessages event was dropped while the tallies
\* held a signature.
C33_WitnessEvent ==
    /\ Running
    /\ pc = "head"
    /\ last.msg = Other("other_variant")
    /\ gathered_signatures # EmptyMap


\* C34 (as claimed): with the fault-injection flag set the accept weight
\* stays 0 and the gathered signatures stay empty whatever valid Accepted
\* responses arrive, and the round never ends through the accept threshold.
C34_IgnoredSignaturesNotCounted ==
    ignore_signers =>
        /\ total_weight_signed = U32(0)
        /\ gathered_signatures = EmptyMap
        /\ outcome # OkGathered


\* C35 (as claimed): for the reject weight, T and total weight of every
\* state of a round, the reject test of the code has the outcome of
\* 'reject-weight + T > total-weight' over the unbounded integers.
C35_RejectTestWithoutOverflow ==
    RejectThresholdReached(total_reject_weight, weight_threshold, total_weight)
        <=> Gt(Plus(total_reject_weight, weight_threshold), total_weight)


C37_OnlyConflictsAreRetried ==
    /\ \A w \in Clients :
          (clients[w].call.pc = "loop" /\ ~clients[w].call.first)
              => clients[w].call.last = "conflict"
    /\ client_hist.chunk.retry_of \in {"none", "conflict"}


C39_ReturnedInSlotOrder ==
    /\ [](outcome = OkGathered =>
            /\ Len(returned) = Cardinality(DOMAIN gathered_signatures)
            /\ \A i \in 1..Len(returned) :
                  /\ returned[i].by \in DOMAIN gathered_signatures
                  /\ returned[i] = gathered_signatures[returned[i].by]
            /\ \A i, j \in 1..Len(returned) :
                  i < j => returned[i].by < returned[j].by)
    /\ [](\A k \in DOMAIN gathered_signatures : gathered_signatures[k].by = k)
    /\ [][(/\ HandledStep
           /\ ~ignore_signers
           /\ ValidAccepted(last'.slot, last'.msg)
           /\ outcome' # Panic)
            => /\ gathered_signatures'[last'.slot] = last'.msg.sig
               /\ \A k \in DOMAIN gathered_signatures' :
                     k # last'.slot
                       => /\ k \in DOMAIN gathered_signatures
                          /\ gathered_signatures'[k] = gathered_signatures[k]]_vars

\* Slot 0 answered last, after slot 1, and replaced its own first signature;
\* its signature is the first of the two returned.
C39_Witness ==
    /\ outcome = OkGathered
    /\ Len(returned) = 2
    /\ last.slot = 0
    /\ last.had
    /\ returned[1] = Sig(0, BlockHash, 2)
    /\ returned[2] = Sig(1, BlockHash, 1)


\* C40: a SignCoordinator::new that returns an error, whichever setup step
\* failed, has neither acquired a receiver nor touched the registry: the
\* registry's channel is what it was, and every other coordinator holds what
\* it held and gets the events it got.
C40_FailedNewLeavesRegistryAlone ==
    /\ [][\A c \in Coordinators, failed \in SetupSteps :
            New(c, failed)
            => /\ holders'[c].status = "failed"
               /\ holders'[c].receiver = NoChannel
               /\ sender_info' = sender_info
               /\ \A d \in Coordinators \ {c} :
                     /\ holders'[d] = holders[d]
                     /\ GetsEvents(d)' = GetsEvents(d)]_vars
    /\ [](\A c \in Coordinators :
            holders[c].status = "failed" => holders[c].receiver = NoChannel)

\* A construction failed while another coordinator held the receiver that
\* gets the events: it still does.
C40_Witness ==
    \E c, d \in Coordinators :
        /\ holders[c].status = "failed"
        /\ holders[d].status = "alive"
        /\ GetsEvents(d)

====
